---------------------------- MODULE Spec2Model ----------------------------
(***************************************************************************)
(* A model of the statistical core of 5q15_immune_diseases:                *)
(*   - bh_fdr, the Benjamini-Hochberg corrector of                         *)
(*     code/collect_sig_genes_trans.py;                                    *)
(*   - the aggregation runs of code/collect_sig_genes_trans.py and         *)
(*     code/collect_sig_genes_transcis_v2.py;                              *)
(*   - the fine-mapping run of code/finemap_pip.py.                        *)
(*                                                                         *)
(* Numbers.  A float that may be missing is a tuple: <<>> is NaN / NA and  *)
(* <<v>> is the number v.  p-values are counted in units of 1/PDen, so     *)
(* <<1>> is 1e-7 and <<PDen>> is 1.0, and <<v>> stands for the float64     *)
(* nearest v/PDen, which is what parsing the decimal text gives.           *)
(* q-values are counted in units of 1/(PDen*QUnit), QUnit being a common   *)
(* multiple of every rank that can occur, so that  p * m / rank  is an     *)
(* exact integer.  A q-value is a pair <<v, d>>: the float64 the code      *)
(* holds lies d units in the last place above (d < 0: below) the float64   *)
(* nearest v/(PDen*QUnit).  The product and the quotient of  p * m / rank  *)
(* are each rounded, and d records where the two roundings end.            *)
(***************************************************************************)
EXTENDS Integers, Sequences, FiniteSets, TLC

VARIABLES
    \* ---- one call of bh_fdr (specification SpecBH)
    pvals,      \* the argument: a sequence of p-values, some missing
    order,      \* the index p_non.sort_values() returned (line 17)
    q,          \* the returned series
    bh_pc,      \* "call" before the call, "done" after it, "idle" elsewhere
    \* ---- one run of a script (specification SpecRun)
    script,     \* "trans" | "transcis_v2" | "finemap" ("none" in SpecBH)
    target,     \* the test type the run keeps
    inputs,     \* the family of input files the run is given
    args,       \* the thresholds on the command line
    pc,         \* the position of main()
    exit,       \* how the run ended: "" while it runs or when it ended well
    nread,      \* how many files of the sorted listing the loop has taken
    seen,       \* how many rows those files held (bounds the inputs)
    cur,        \* the file taken last: the input of that step
    last,       \* what the loop did with it: "skipped", "appended", "raised"
    rows,       \* trans: rows; transcis_v2: frames (flattened); finemap: df
    usable,     \* history: the usable rows of the files taken so far, in order
    out,        \* the final collection (out / all_df), q_bh once attached
    bh_calls,   \* history: how many corrections have been run
    m_used,     \* history: the m of the last correction
    written,    \* the names of the tables written so far, in order
    sig,        \* the significant table, once written
    top,        \* the top-hit table, once written
    cred        \* finemap: the credible set, once written

bhvars  == <<pvals, order, q, bh_pc>>
conf    == <<script, target, inputs, args>>
runvars == <<conf, pc, exit, nread, seen, cur, last, rows, usable, out,
             bh_calls, m_used, written, sig, top, cred>>
vars    == <<bhvars, runvars>>

----------------------------------------------------------------------------
(* Bounds of the model *)

\* the longest vector handed to a single call of bh_fdr in SpecBH
MaxLen == 3
\* the most files the listing of one aggregation run holds
MaxFiles == 2
\* the most rows the input files of one run hold together
MaxRows == 3
\* the same two bounds for the runs whose tables differ in their cells: one
\* table of two rows
TableFiles == 1
TableRows == 2
\* the files of the scenario of three one-row files
ScenarioFiles == 3

\* p-values are counted in units of 1e-7: PDen is 1.0 (the clip bound of line 26)
PDen == 10000000

----------------------------------------------------------------------------
(* Numbers *)

NaN == <<>>
Num(v) == <<v>>
notna(x) == x # NaN
isna(x) == x = NaN
Val(x) == x[1]

\* 0.01, and the number n/100
Cent == PDen \div 100
Dec(n) == Num(n * Cent)

Abs(x) == IF x < 0 THEN 0 - x ELSE x
Min2(a, b) == IF a <= b THEN a ELSE b
Max2(a, b) == IF a >= b THEN a ELSE b

RECURSIVE Gcd(_, _)
Gcd(a, b) == IF b = 0 THEN a ELSE Gcd(b, a % b)

RECURSIVE LcmUpTo(_)
LcmUpTo(n) == IF n <= 1 THEN 1 ELSE LET l == LcmUpTo(n - 1) IN (l * n) \div Gcd(l, n)

\* the longest vector any call can see: a call of SpecBH, or a whole collection
MaxM == Max2(Max2(MaxLen, MaxRows), Max2(TableRows, ScenarioFiles))
\* q-values are counted in units of 1/(PDen * QUnit)
QUnit == LcmUpTo(MaxM)
\* 1.0 as a q-value
QOne == PDen * QUnit
\* the p-value x (in units of 1/PDen) as a q-value
AsQ(x) == x * QUnit

\* the q-value d units in the last place above the float64 nearest v
QNum(v, d) == <<v, d>>
\* the float64 nearest v: a number read from text, such as a threshold
QExact(v) == <<v, 0>>
Dev(x) == x[2]
\* a <= b on two float64 held this way: two values a few units in the last
\* place from the same v are ordered by their deviations
QLeq(a, b) == a[1] < b[1] \/ (a[1] = b[1] /\ a[2] <= b[2])
QMin(a, b) == IF QLeq(a, b) THEN a ELSE b

----------------------------------------------------------------------------
(* bh_fdr: collect_sig_genes_trans.py, lines 8-27 *)

\* line 11: m = p.notna().sum()
BhM(p) == Cardinality({i \in 1..Len(p) : notna(p[i])})

\* line 16: the index of p_non = p[p.notna()]
NonMissing(p) == {i \in 1..Len(p) : notna(p[i])}

\* line 17: an index that puts p_non in ascending order
IsSortOrder(p, ord) ==
    /\ Len(ord) = BhM(p)
    /\ {ord[k] : k \in 1..Len(ord)} = NonMissing(p)
    /\ \A k \in 1..(Len(ord) - 1) : Val(p[ord[k]]) <= Val(p[ord[k + 1]])

\* line 17: every index sort_values() may return.  Its default sort is numpy's
\* quicksort, which is not stable: equal p-values may come out in any order.
SortOrders(p) ==
    {ord \in [1..BhM(p) -> NonMissing(p)] : IsSortOrder(p, ord)}

\* line 17 when the sort keeps equal values in input order (a stable sort):
\* the index of the non-missing values up to position n, sorted
RECURSIVE StableOrderUpTo(_, _)
StableOrderUpTo(p, n) ==
    IF n = 0 THEN <<>>
    ELSE LET prev == StableOrderUpTo(p, n - 1)
         IN  IF isna(p[n]) THEN prev
             ELSE LET before == {k \in 1..Len(prev) : Val(p[prev[k]]) <= Val(p[n])}
                      cut    == Cardinality(before)
                  IN  SubSeq(prev, 1, cut) \o <<n>> \o SubSeq(prev, cut + 1, Len(prev))

StableOrder(p) == StableOrderUpTo(p, Len(p))

\* line 19 in float64: the units in the last place between  (p * m) / rank,
\* product and quotient each rounded to nearest, and the float64 nearest the
\* exact p * m / rank, for the p-value v (in units of 1/PDen) at this rank
\* of m.  0.2 * 3 is 0.6000000000000001, so 0.2 of three gets
\* 0.20000000000000004 at rank 3; 0.7 * 3 / 3 is 0.6999999999999998;
\* 0.6 * 3 / 2 is 0.8999999999999999.  The lines cover every p-value the
\* inputs of the model hold, for m up to 5; with m = 1 or 2, and wherever no
\* line is listed, the result is the nearest float64.
q_dev(v, m, k) ==
    LET key == <<v, m, k>>
    IN
    CASE key = <<0 - 1000000, 3, 1>>   -> 0 - 1
      [] key = <<0 - 1000000, 3, 2>>   -> 0 - 1
      [] key = <<0 - 1000000, 3, 3>>   -> 0 - 1
      [] key = <<1, 5, 3>>             -> 0 - 1
      [] key = <<5, 4, 3>>             -> 0 - 1
      [] key = <<5, 5, 1>>             -> 0 - 1
      [] key = <<5, 5, 2>>             -> 0 - 1
      [] key = <<5, 5, 3>>             -> 0 - 1
      [] key = <<5, 5, 4>>             -> 0 - 1
      [] key = <<300000, 5, 3>>        -> 0 - 1
      [] key = <<2000000, 3, 1>>       -> 1
      [] key = <<2000000, 3, 2>>       -> 1
      [] key = <<2000000, 3, 3>>       -> 1
      [] key = <<6000000, 3, 1>>       -> 0 - 1
      [] key = <<6000000, 3, 2>>       -> 0 - 1
      [] key = <<6000000, 4, 3>>       -> 0 - 1
      [] key = <<7000000, 3, 1>>       -> 0 - 1
      [] key = <<7000000, 3, 2>>       -> 0 - 1
      [] key = <<7000000, 3, 3>>       -> 0 - 1
      [] key = <<7000000, 4, 3>>       -> 0 - 1
      [] OTHER -> 0

\* lines 18-19 with m and the rank exchanged: p * rank / m
q_raw_inverted(p, ord) ==
    [k \in 1..Len(ord) |-> QExact((Val(p[ord[k]]) * k * QUnit) \div BhM(p))]

\* lines 18-19: q_raw = p_non.loc[order] * m / ranks, ranks = 1..m in sorted order
q_raw(p, ord) ==
    [k \in 1..Len(ord) |->
        QNum((Val(p[ord[k]]) * BhM(p) * QUnit) \div k,
             q_dev(Val(p[ord[k]]), BhM(p), k))]

\* a monotonicity loop that runs the wrong way, left to right
RECURSIVE MonLoopForward(_, _)
MonLoopForward(qm, i) ==
    IF i >= Len(qm) THEN qm
    ELSE MonLoopForward([qm EXCEPT ![i] = QMin(qm[i], qm[i + 1])], i + 1)

\* lines 23-24: for i in range(len(q_mon) - 2, -1, -1):
\*                  q_mon.iloc[i] = min(q_mon.iloc[i], q_mon.iloc[i + 1])
\* (i counts from 1 here, so the loop starts at Len - 1 and stops after 1)
RECURSIVE MonLoop(_, _)
MonLoop(qm, i) ==
    IF i < 1 THEN qm
    ELSE MonLoop([qm EXCEPT ![i] = QMin(qm[i], qm[i + 1])], i - 1)

\* lines 22-24 with the loop left out: q_mon stays q_raw
q_mon_none(raw) == raw

\* lines 22-24: q_mon
q_mon(raw) == MonLoop(raw, Len(raw) - 1)

\* line 26 without the clip
clip_upper_none(qm) == qm

\* line 26: q_mon.clip(upper=1.0)
clip_upper(qm) == [k \in 1..Len(qm) |-> QMin(qm[k], QExact(QOne))]

\* line 26 with the values written back by position among the non-missing
\* entries instead of by label
scatter_by_position(p, ord, vals) ==
    [i \in 1..Len(p) |->
        IF isna(p[i]) THEN NaN
        ELSE vals[Cardinality({j \in 1..i : notna(p[j])})]]

\* line 26: q.loc[order] = values: the k-th value goes to the position order[k];
\* the other positions keep the NaN of line 12
scatter(p, ord, vals) ==
    [i \in 1..Len(p) |->
        IF \E k \in 1..Len(ord) : ord[k] = i
        THEN vals[CHOOSE k \in 1..Len(ord) : ord[k] = i]
        ELSE NaN]

\* lines 8-27, given the index the sort of line 17 returned
bh_fdr(p, ord) ==
    IF BhM(p) = 0
    THEN [i \in 1..Len(p) |-> NaN]
    ELSE scatter(p, ord, clip_upper(q_mon(q_raw(p, ord))))

----------------------------------------------------------------------------
(* SpecBH: one call of bh_fdr on any vector of the bounded inputs *)

\* the p-values a vector may hold: -0.1, 0, three small ones (0.01, 0.03,
\* 0.04), two whose raw q passes 1 (0.6, 0.7), one above 1 (1.5); and missing
PVals ==
    {Dec(0 - 10), Dec(0), Dec(1), Dec(3), Dec(4), Dec(60), Dec(70), Dec(150), NaN}

BhInputs == UNION {[1..n -> PVals] : n \in 0..MaxLen}

IdleRun ==
    /\ script = "none" /\ target = "ADD" /\ inputs = "none" /\ args = <<>>
    /\ pc = "idle" /\ exit = ""
    /\ nread = 0 /\ seen = 0 /\ cur = <<>> /\ last = "none"
    /\ rows = <<>> /\ usable = <<>> /\ out = <<>> /\ bh_calls = 0 /\ m_used = 0
    /\ written = <<>> /\ sig = <<>> /\ top = <<>> /\ cred = <<>>

InitBH ==
    /\ pvals \in BhInputs
    /\ order = <<>>
    /\ q = <<>>
    /\ bh_pc = "call"
    /\ IdleRun

\* the call: the sort picks one of the orders it may return
BhFdr ==
    /\ bh_pc = "call"
    /\ \E ord \in SortOrders(pvals) :
          /\ order' = ord
          /\ q' = bh_fdr(pvals, ord)
    /\ bh_pc' = "done"
    /\ UNCHANGED <<pvals, runvars>>

NextBH == BhFdr

SpecBH == InitBH /\ [][NextBH]_vars

----------------------------------------------------------------------------
(* Claims about bh_fdr, checked under SpecBH *)

SetMin(S) == CHOOSE x \in S : \A y \in S : x <= y

\* the non-missing p-values in ascending order
SortedVals(p) == LET o == StableOrder(p) IN [k \in 1..Len(o) |-> Val(p[o[k]])]

\* the Benjamini-Hochberg step-up adjusted value of rank r among the sorted
\* values sp: min(1, min over ranks s >= r of sp(s) * m / s)
BHAdjusted(sp, r) ==
    LET m == Len(sp)
    IN  Min2(QOne, SetMin({(sp[s] * m * QUnit) \div s : s \in r..m}))

\* the least of a set of float64
QSetMin(S) == CHOOSE x \in S : \A y \in S : QLeq(x, y)

\* the same value with every product and quotient rounded as float64 rounds
\* them: min(1.0, min over ranks s >= r of (sp(s) * m) / s)
BHRounded(sp, r) ==
    LET m == Len(sp)
    IN  QMin(QSetMin({QNum((sp[s] * m * QUnit) \div s, q_dev(sp[s], m, s)) :
                         s \in r..m}),
             QExact(QOne))

\* C1: the q-values are non-decreasing in p: for any two non-missing positions
\* i and j with p[i] <= p[j], q[i] <= q[j].
C1_Monotone ==
    bh_pc = "done" =>
        \A i, j \in NonMissing(pvals) :
            Val(pvals[i]) <= Val(pvals[j]) => QLeq(q[i], q[j])

\* C2: the result has the length and the order of the input: a missing p-value
\* has a missing q-value and a present one a present q-value, with no p-value
\* present every q-value is missing, and the q-value at position i is the
\* adjusted value of a rank that the p-value at position i holds in the
\* ascending order.
C2_SameShape ==
    bh_pc = "done" =>
        /\ Len(q) = Len(pvals)
        /\ DOMAIN q = DOMAIN pvals
        /\ \A i \in 1..Len(pvals) : isna(q[i]) <=> isna(pvals[i])
        /\ (BhM(pvals) = 0 => \A i \in 1..Len(pvals) : isna(q[i]))
        /\ \A i \in NonMissing(pvals) :
              \E r \in 1..BhM(pvals) :
                  /\ SortedVals(pvals)[r] = Val(pvals[i])
                  /\ q[i] = BHRounded(SortedVals(pvals), r)

\* C2's case: a vector with a missing entry between two present ones that get
\* different q-values
C2_Witness ==
    /\ bh_pc = "done"
    /\ Len(pvals) = 3
    /\ isna(pvals[2]) /\ notna(pvals[1]) /\ notna(pvals[3])
    /\ Val(pvals[1]) > Val(pvals[3])
    /\ q[1] # q[3]

\* C3 as stated: the p-value of ascending rank r (duplicates on consecutive
\* ranks, in the order the sort left them) gets min(1, min over s >= r of
\* p(s)*m/s), and the largest p-value gets min(1, p).
C3_Original ==
    bh_pc = "done" =>
        LET m  == BhM(pvals)
            sp == [k \in 1..Len(order) |-> Val(pvals[order[k]])]
        IN  /\ Len(order) = m
            /\ \A r \in 1..m : q[order[r]] = QExact(BHAdjusted(sp, r))
            /\ m > 0 => q[order[m]] = QExact(Min2(QOne, AsQ(sp[m])))

\* C3 amended: the p-value of ascending rank r (duplicates on consecutive
\* ranks, in the order the sort left them) gets min(1, min over s >= r of
\* (p(s)*m)/s) with each product and quotient rounded to float64, which lies
\* within two units in the last place of the exact step-up value; the largest
\* p-value gets min(1, (p*m)/m), within two units in the last place of
\* min(1, p).
C3_StepUp ==
    bh_pc = "done" =>
        LET m  == BhM(pvals)
            sp == [k \in 1..Len(order) |-> Val(pvals[order[k]])]
        IN  /\ Len(order) = m
            /\ \A r \in 1..m :
                  /\ q[order[r]] = BHRounded(sp, r)
                  /\ Val(q[order[r]]) = BHAdjusted(sp, r)
                  /\ Abs(Dev(q[order[r]])) <= 2
            /\ m > 0 => /\ Val(q[order[m]]) = Min2(QOne, AsQ(sp[m]))
                        /\ Abs(Dev(q[order[m]])) <= 2

\* C3's case: three p-values, two of them equal, where the running minimum
\* lowers a raw q-value
C3_Witness ==
    /\ bh_pc = "done"
    /\ BhM(pvals) = 3
    /\ \E i, j \in NonMissing(pvals) : i # j /\ pvals[i] = pvals[j]
    /\ \E k \in 1..2 : Val(q_raw(pvals, order)[k]) > Val(q_raw(pvals, order)[k + 1])
    /\ \E k \in 1..3 : Val(q[order[k]]) < Val(q_raw(pvals, order)[k])
    /\ Dev(q[order[3]]) # 0

\* C4 as stated: p = [0.04, 0.01, 0.03] gives q = [0.04, 0.03, 0.03].
C4_Original ==
    (bh_pc = "done" /\ pvals = <<Dec(4), Dec(1), Dec(3)>>) =>
        q = <<QExact(AsQ(4 * Cent)), QExact(AsQ(3 * Cent)), QExact(AsQ(3 * Cent))>>

\* C4 amended: p = [0.04, 0.01, 0.03] gives q = [0.04, 0.03, 0.04] in input
\* order (0.03 has raw q 0.045, lowered to the 0.04 of the rank above it).
C4_Example ==
    (bh_pc = "done" /\ pvals = <<Dec(4), Dec(1), Dec(3)>>) =>
        q = <<QExact(AsQ(4 * Cent)), QExact(AsQ(3 * Cent)), QExact(AsQ(4 * Cent))>>

\* C4's case: the call on p = [0.04, 0.01, 0.03] has returned
C4_Witness ==
    /\ bh_pc = "done"
    /\ pvals = <<Dec(4), Dec(1), Dec(3)>>
    /\ order = <<2, 3, 1>>

\* C5: a single non-missing p-value gets q = min(p, 1), whatever is missing
\* around it.
C5_Single ==
    (bh_pc = "done" /\ BhM(pvals) = 1) =>
        \A i \in NonMissing(pvals) : q[i] = QExact(Min2(AsQ(Val(pvals[i])), QOne))

\* C5's case: one p-value with a missing entry on either side
C5_Witness ==
    /\ bh_pc = "done"
    /\ Len(pvals) = 3
    /\ isna(pvals[1]) /\ notna(pvals[2]) /\ isna(pvals[3])
    /\ notna(q[2])

\* C6: every non-missing q-value lies in [0, 1].
C6_UnitInterval ==
    bh_pc = "done" =>
        \A i \in 1..Len(q) :
            notna(q[i]) => (QLeq(QExact(0), q[i]) /\ QLeq(q[i], QExact(QOne)))

\* C23: equal p-values get equal q-values: for any two non-missing positions
\* i and j with p[i] = p[j], q[i] = q[j], whichever the sort ranks first.
C23_EqualPEqualQ ==
    bh_pc = "done" =>
        \A i, j \in NonMissing(pvals) :
            Val(pvals[i]) = Val(pvals[j]) => q[i] = q[j]

\* the non-missing p-values lie in [0, 1]
InUnitInterval(p) == \A i \in NonMissing(p) : 0 <= Val(p[i]) /\ Val(p[i]) <= PDen

\* C24 as stated: when every non-missing p-value lies in [0, 1], no q-value
\* is smaller than its p-value: q[i] >= p[i] at every non-missing position.
C24_Original ==
    (bh_pc = "done" /\ InUnitInterval(pvals)) =>
        \A i \in NonMissing(pvals) : QLeq(QExact(AsQ(Val(pvals[i]))), q[i])

\* C24 amended: when every non-missing p-value lies in [0, 1], no q-value is
\* smaller than its p-value by more than the rounding of (p * m) / rank, two
\* units in the last place: the exact step-up value is at least p, and the
\* float64 returned is at least the float64 two below p.
C24_QAtLeastP ==
    (bh_pc = "done" /\ InUnitInterval(pvals)) =>
        \A i \in NonMissing(pvals) :
            /\ Val(q[i]) >= AsQ(Val(pvals[i]))
            /\ QLeq(QNum(AsQ(Val(pvals[i])), 0 - 2), q[i])

\* three p-values of [0, 1], none missing: one has a q-value above it, and
\* the largest, 0.7, the q-value (0.7 * 3) / 3, one unit in the last place
\* below 0.7
C24_Witness ==
    /\ bh_pc = "done" /\ InUnitInterval(pvals) /\ BhM(pvals) = 3
    /\ \E i, j \in NonMissing(pvals) :
          /\ Val(q[i]) > AsQ(Val(pvals[i]))
          /\ pvals[j] = Dec(70) /\ q[j] = QNum(AsQ(Val(pvals[j])), 0 - 1)

----------------------------------------------------------------------------
(* Input tables.  A file is a record: how it reads (kind), its base name,   *)
(* the columns of its header, and its rows as the text of their cells.      *)
(* dtype=str keeps every cell as text until pd.to_numeric is applied.       *)

\* the values of the TEST column: the additive test and another one
Tests == {"ADD", "DOMDEV"}
\* the text of a P cell: two numbers, and PLINK's NA
PCells == {"0.01", "0.5", "NA"}
\* the value of a field whose column the file does not have
NoCol == "-"

\* the base names of the input files: one without a chr token, one that
\* matches  chr(\d+)\.([^.]+)\.assoc\.linear$
Names == {"assoc_all.assoc.linear", "run_chr1.G1.assoc.linear"}

\* the text of a CHR cell: chromosome 1 with a leading zero, chromosome 2,
\* and one that is not a number
ChrCells == {"01", "2", "X"}
\* the text of a PHENO cell (the column --all-pheno adds)
PhenoCells == {"G1", "G2"}
\* the text of a SNP cell
SnpCells == {"rs1", "rs2", "rs3"}
\* the text of a BP cell, a column every table has: half a megabase and one
\* megabase above position 1000000, and PLINK's NA
BpCells == {"1500000", "2000000", "NA"}

\* the families of input files a run is given:
\*   "headers"   tables that differ in their columns and test types,
\*   "cells"     tables that differ in the cells of their rows,
\*   "scenario"  one-row tables with the p-values 1e-7, 5e-7 and 0.2,
\*   "signed"    tables whose P cells hold numbers on both sides of 0
Families == {"headers", "cells", "scenario", "signed"}

\* the most files of a listing, and the most rows its files hold together
FileCap(fam) ==
    CASE fam \in {"cells", "signed"} -> TableFiles
      [] fam = "scenario" -> ScenarioFiles [] OTHER -> MaxFiles
RowCap(fam) ==
    CASE fam \in {"cells", "signed"} -> TableRows
      [] fam = "scenario" -> ScenarioFiles [] OTHER -> MaxRows

\* the columns the aggregators look at
AggColumns == {"TEST", "P", "CHR", "SNP"}
\* the headers of an aggregator's input files.  "headers": all of the
\* columns, no TEST, no P, neither; and for transcis_v2, which also asks for
\* them, no CHR or no SNP.  "cells": all of the columns, and for trans, which
\* reads it, with PHENO as well.
AggColSets(fam, s) ==
    CASE fam = "headers" ->
            {AggColumns \ miss : miss \in {{}, {"TEST"}, {"P"}, {"TEST", "P"}}}
            \cup (IF s = "transcis_v2"
                  THEN {AggColumns \ {"CHR"}, AggColumns \ {"SNP"}}
                  ELSE {})
      [] fam = "cells" ->
            IF s = "trans" THEN {AggColumns, AggColumns \cup {"PHENO"}} ELSE {AggColumns}
      [] OTHER -> {AggColumns}

\* the cell of a column the rows do not vary in
BaseCell(col, cols, cell) == IF col \in cols THEN cell ELSE NoCol

\* "headers": the rows of a table with these columns, for a run that keeps the
\* test type tgt: a row of that type (or of a table without TEST) has any P
\* cell, a row of another type, which the test filter drops, has one
HeaderRows(cols, tgt) ==
    {[test  |-> t,
      p     |-> c,
      chr   |-> BaseCell("CHR", cols, "1"),
      pheno |-> NoCol,
      snp   |-> BaseCell("SNP", cols, "rs1"),
      bp    |-> "1500000"] :
        t \in (IF "TEST" \in cols THEN Tests ELSE {NoCol}),
        c \in (IF "P" \in cols THEN PCells ELSE {NoCol})}
    \ {r \in [test : Tests, p : PCells, chr : {"1", NoCol}, pheno : {NoCol},
              snp : {"rs1", NoCol}, bp : {"1500000"}] : r.test # tgt /\ r.p # "0.01"}

\* "cells": rows of the target test type that differ from a base row in what
\* the script looks at, as <<CHR, PHENO, SNP, BP>>: for trans the chromosome
\* or the phenotype of the row (01, G1, rs1); for transcis_v2 the chromosome
\* as text, the variant or the position of the row (1, G1, rs1, 1500000).
\* A row without a p-value is dropped whatever its other cells are, and has
\* those of the base row.
CellFacets(s) ==
    IF s = "trans"
    THEN {<<ch, "G1", "rs1", "1500000">> : ch \in ChrCells}
         \cup {<<"01", "G2", "rs1", "1500000">>}
    ELSE {<<ch, "G1", "rs1", "1500000">> : ch \in {"1", "01", "2"}}
         \cup {<<"1", "G1", "rs2", "1500000">>}
         \cup {<<"1", "G1", "rs1", b>> : b \in BpCells}

\* the base row of the script
BaseFacet(s) ==
    IF s = "trans" THEN <<"01", "G1", "rs1", "1500000">> ELSE <<"1", "G1", "rs1", "1500000">>

CellRows(s, cols, tgt) ==
    {[test  |-> tgt,
      p     |-> c,
      chr   |-> f[1],
      pheno |-> BaseCell("PHENO", cols, f[2]),
      snp   |-> f[3],
      bp    |-> f[4]] : c \in PCells, f \in CellFacets(s)}
    \ {r \in [test : {tgt}, p : {"NA"}, chr : ChrCells \cup {"1"},
              pheno : PhenoCells \cup {NoCol}, snp : SnpCells, bp : BpCells] :
          <<r.chr, r.snp, r.bp>> # <<BaseFacet(s)[1], BaseFacet(s)[3], BaseFacet(s)[4]>>
              \/ r.pheno \notin {"G1", NoCol}}

\* "scenario": the one row of a file, with one of the three p-values
ScenarioRows ==
    {[test |-> "ADD", p |-> c, chr |-> "2", pheno |-> NoCol, snp |-> v,
      bp |-> "1500000"] :
        c \in {"1e-07", "5e-07", "0.2"}, v \in SnpCells}

\* "signed": a row of the additive test whose P cell is the text of a number
\* below 0, which pd.to_numeric takes as it takes any number, or above it
SignedRows ==
    {[test |-> "ADD", p |-> c, chr |-> "2", pheno |-> NoCol, snp |-> "rs1",
      bp |-> "1500000"] :
        c \in {"-0.1", "0.01", "0.5"}}

AggRowsOf(fam, s, cols, tgt) ==
    CASE fam = "headers" -> HeaderRows(cols, tgt)
      [] fam = "cells"   -> CellRows(s, cols, tgt)
      [] fam = "signed"  -> SignedRows
      [] OTHER           -> ScenarioRows

SeqsUpTo(S, n) == UNION {[1..k -> S] : k \in 0..n}

\* the files the aggregator s may find, holding at most `budget` rows
AggFiles(fam, s, tgt, budget) ==
    IF fam = "scenario"
    THEN {[kind |-> "table", name |-> "run_chr1.G1.assoc.linear", cols |-> AggColumns,
           rows |-> <<r>>] : r \in ScenarioRows}
    ELSE (IF fam = "headers"
          THEN {[kind |-> k, name |-> n, cols |-> {}, rows |-> <<>>] :
                    k \in {"empty", "unparsable"}, n \in Names}
          ELSE {})
         \cup UNION {
             {[kind |-> "table", name |-> n, cols |-> c, rows |-> r] :
                 n \in Names, r \in SeqsUpTo(AggRowsOf(fam, s, c, tgt), budget)} :
                     c \in AggColSets(fam, s)}

\* the rows of file number idx, each tagged with the file and its line
Tagged(f, idx) ==
    [k \in 1..Len(f.rows) |->
        [src |-> idx, k |-> k, test |-> f.rows[k].test, p |-> f.rows[k].p,
         chr |-> f.rows[k].chr, pheno |-> f.rows[k].pheno, snp |-> f.rows[k].snp,
         bp |-> f.rows[k].bp]]

\* a record with one more column, or one column set
With(r, col, v) == [c \in DOMAIN r \cup {col} |-> IF c = col THEN v ELSE r[c]]

\* pd.to_numeric(..., errors="coerce") on one cell (trans line 86, v2 line 112,
\* finemap line 33): the number in units of 1/PDen, NaN for anything else
ToNumeric(cell) ==
    CASE cell = "0.01"  -> Dec(1)
      [] cell = "0.5"   -> Dec(50)
      [] cell = "0.2"   -> Dec(20)
      [] cell = "-0.1"  -> Dec(0 - 10)
      [] cell = "1e-07" -> Num(1)
      [] cell = "5e-07" -> Num(5)
      [] OTHER         -> NaN

\* the test filter left out
filter_test_none(df, cols, tgt) == df

\* df = df[df["TEST"] == target], only when the file has a TEST column
\* (trans lines 80-81, v2 lines 86-87, finemap lines 28-29)
filter_test(df, cols, tgt) ==
    IF "TEST" \in cols
    THEN LET keep(r) == r.test = tgt IN SelectSeq(df, keep)
    ELSE df

\* df["P"] = pd.to_numeric(df["P"], errors="coerce") (trans line 86, v2 line 112)
numeric_p(df) == [k \in 1..Len(df) |-> [df[k] EXCEPT !.p = ToNumeric(@)]]

\* df = df[df["P"].notna()] (trans line 87); dropna(subset=["P"]) (v2 line 113)
dropna_p(df) == LET keep(r) == notna(r.p) IN SelectSeq(df, keep)

\* a frame put in front of the list instead of at its end
prepend_frame(acc, df) == df \o acc

\* rows.append(df[keep_cols]) (trans line 114), frames.append(df) (v2 line 103);
\* pd.concat(..., ignore_index=True) later lays the frames end to end
append_frame(acc, df) == acc \o df

----------------------------------------------------------------------------
(* collect_sig_genes_trans.py: main *)

Skipped == [tag |-> "skipped", add |-> <<>>]

\* lines 29-31: parse_chr_from_path, the digits behind "chr" in the base name
parse_chr_from_path(name) ==
    IF name = "run_chr1.G1.assoc.linear" THEN Num(1) ELSE NaN

\* lines 76-77 and 93: the PHENO column, "PHENO" in a table that has none
pheno_gene(r) == IF r.pheno = NoCol THEN "PHENO" ELSE r.pheno

\* lines 96-99: pd.to_numeric(CHR, errors="coerce").astype("Int64"), pd.NA in
\* a table without the column
snp_chr(cell) ==
    CASE cell = "1"  -> Num(1)
      [] cell = "01" -> Num(1)
      [] cell = "2"  -> Num(2)
      [] OTHER       -> NaN

\* a label that compares the chromosome as written with the file's number
cis_trans_text(pchr, r) ==
    IF isna(pchr) \/ isna(snp_chr(r.chr)) THEN "NA"
    ELSE IF r.chr = "1" THEN "cis" ELSE "trans"

\* lines 102-105: cis_trans of a row
cis_trans(pchr, r) ==
    IF isna(pchr) \/ isna(snp_chr(r.chr)) THEN "NA"
    ELSE IF Val(pchr) = Val(snp_chr(r.chr)) THEN "cis" ELSE "trans"

\* lines 91-108: the columns main adds to the rows of file f
label_rows(df, f) ==
    [k \in 1..Len(df) |->
        [pheno_gene  |-> pheno_gene(df[k]),
         pheno_chr   |-> parse_chr_from_path(f.name),
         SNP_CHR     |-> snp_chr(df[k].chr),
         cis_trans   |-> cis_trans(parse_chr_from_path(f.name), df[k]),
         source_file |-> f.name] @@ df[k]]

\* lines 64-114: the body of the loop for file number idx
trans_file(f, idx) ==
    \* lines 33-42: read_assoc_linear returns None, line 66 continues
    IF f.kind # "table" \/ f.rows = <<>> THEN Skipped
    ELSE LET df1 == filter_test(Tagged(f, idx), f.cols, "ADD")
         IN  \* lines 82-83
             IF df1 = <<>> THEN Skipped
             \* line 86: df["P"] of a frame without that column
             ELSE IF "P" \notin f.cols THEN [tag |-> "raised", add |-> <<>>]
             ELSE LET df2 == dropna_p(numeric_p(df1))
                  IN  \* lines 88-89
                      IF df2 = <<>> THEN Skipped
                      ELSE [tag |-> "appended", add |-> label_rows(df2, f)]

\* the P column of a collection (out["P"].values)
p_column(coll) == [k \in 1..Len(coll) |-> coll[k].p]

WithQ(r, qv) == With(r, "q", qv)

\* a correction run inside each source file instead of over the collection
attach_q_per_file(coll, ord) ==
    [k \in 1..Len(coll) |->
        LET mine  == {j \in 1..Len(coll) : coll[j].src = coll[k].src}
            first == SetMin(mine)
            sub   == SubSeq(p_column(coll), first, first + Cardinality(mine) - 1)
        IN  WithQ(coll[k], bh_fdr(sub, StableOrder(sub))[k - first + 1])]

\* line 121: out["q_bh"] = bh_fdr(out["P"].values), given the index the sort
\* inside bh_fdr returned.  Among p-values above 0 equal p-values get equal
\* q-values and that index does not show; among p-values below 0 it does.
attach_q(coll, ord) ==
    LET qv == bh_fdr(p_column(coll), ord)
    IN  [k \in 1..Len(coll) |-> WithQ(coll[k], qv[k])]

\* the order of Python's str on the names that occur
StrRank(name) ==
    CASE name = "G1" -> 1 [] name = "G2" -> 2 [] name = "PHENO" -> 3
      [] name = "rs1" -> 1 [] name = "rs2" -> 2 [] name = "rs3" -> 3
      [] OTHER -> 0

\* lexicographic <= and = on tuples of integers of one length
RECURSIVE KeyLeq(_, _)
KeyLeq(a, b) ==
    IF a = <<>> THEN TRUE
    ELSE IF Head(a) # Head(b) THEN Head(a) < Head(b)
    ELSE KeyLeq(Tail(a), Tail(b))

\* the index that sorts the first n keys, equal keys left in their order: a
\* key goes behind those placed before it that are not above it
RECURSIVE KeyOrderUpTo(_, _)
KeyOrderUpTo(keys, n) ==
    IF n = 0 THEN <<>>
    ELSE LET prev == KeyOrderUpTo(keys, n - 1)
             cut  == Cardinality({k \in 1..Len(prev) : KeyLeq(keys[prev[k]], keys[n])})
         IN  SubSeq(prev, 1, cut) \o <<n>> \o SubSeq(prev, cut + 1, Len(prev))

\* sort_values on several columns (pandas sorts these with a stable lexsort,
\* whatever `kind` is), or on one with kind="mergesort"; keys[k] is the key
\* of row k
stable_sort(df, keys) ==
    LET ord == KeyOrderUpTo(keys, Len(df)) IN [k \in 1..Len(df) |-> df[ord[k]]]

\* a selection under the q threshold alone
select_sig_q_only(coll, a) ==
    LET keep(r) == QLeq(r.q, QExact(a.q_fdr)) IN SelectSeq(coll, keep)

\* trans line 127, v2 line 161:
\* out[(out["P"] <= p_raw) & (out["q_bh"] <= q_fdr)]
select_sig(coll, a) ==
    LET keep(r) == Val(r.p) <= a.p_raw /\ QLeq(r.q, QExact(a.q_fdr))
    IN  SelectSeq(coll, keep)

\* trans line 133: groupby("pheno_gene").head(1), the first row of each
\* phenotype, in the order the rows stand in
group_head(sg) ==
    LET first(k) == \A j \in 1..(k - 1) : sg[j].pheno_gene # sg[k].pheno_gene
        F[k \in 0..Len(sg)] ==
            IF k = 0 THEN <<>> ELSE IF first(k) THEN Append(F[k - 1], sg[k]) ELSE F[k - 1]
    IN  F[Len(sg)]

\* the top hits taken from the significant rows as they stand, unsorted
top_hits_unsorted(sg) == group_head(sg)

\* trans lines 131-135: sig.sort_values(["pheno_gene", "P"]) and then the first
\* row of each phenotype in that order
top_hits(sg) ==
    LET keys == [k \in 1..Len(sg) |-> <<StrRank(sg[k].pheno_gene), Val(sg[k].p)>>]
    IN  group_head(stable_sort(sg, keys))

----------------------------------------------------------------------------
(* collect_sig_genes_transcis_v2.py: main *)

\* lines 16-22: parse_meta on the base name
parse_meta(name) ==
    IF name = "run_chr1.G1.assoc.linear" THEN <<"1", "G1">> ELSE <<"", "">>

\* lines 94-96: CHR renamed to SNP_CHR (still text), and the two columns
\* taken from the name of the file
meta_rows(df, f) ==
    [k \in 1..Len(df) |->
        [pheno_gene |-> parse_meta(f.name)[2],
         pheno_chr  |-> parse_meta(f.name)[1],
         SNP_CHR    |-> df[k].chr] @@ df[k]]

\* lines 76-103: the body of the loop for file number idx
v2_file(f, idx, tgt) ==
    \* lines 77-79
    IF parse_meta(f.name)[1] = "" \/ parse_meta(f.name)[2] = "" THEN Skipped
    \* lines 80-85: read_table raised, or the frame is empty
    ELSE IF f.kind # "table" \/ f.rows = <<>> THEN Skipped
    ELSE LET df1 == filter_test(Tagged(f, idx), f.cols, tgt)
         IN  \* lines 88-89
             IF df1 = <<>> THEN Skipped
             \* lines 92-93
             ELSE IF ~({"CHR", "SNP", "P"} \subseteq f.cols) THEN Skipped
             ELSE [tag |-> "appended", add |-> meta_rows(df1, f)]

\* the files --gtf may name: none (the default), one that holds the genes
\* below, and one that does not exist
Gtfs == {"", "genes.gtf", "missing.gtf"}

\* the tab-separated fields of the lines of genes.gtf that are not comments:
\* column 1, 3, 4, 5, 7, and the gene_name of column 9
GtfLines ==
    <<[seqname |-> "chr1", feature |-> "gene", start |-> 1000000, end |-> 1600000,
       strand |-> "+", gene_name |-> "g1"],
      [seqname |-> "chr1", feature |-> "exon", start |-> 1200000, end |-> 1300000,
       strand |-> "+", gene_name |-> "g1"],
      [seqname |-> "chr2", feature |-> "gene", start |-> 400000, end |-> 900000,
       strand |-> "-", gene_name |-> "G2"]>>

\* line 36: toks[0].replace("chr", "")
StripChr(t) == CASE t = "chr1" -> "1" [] t = "chr2" -> "2" [] OTHER -> t
\* lines 46 and 126: str.upper()
Upper(t) == CASE t = "g1" -> "G1" [] t = "g2" -> "G2" [] OTHER -> t

\* lines 24-53: the gene lines of the file as a map from the gene name in
\* upper case to <<chromosome, TSS>>, the TSS being the start of a gene on
\* the + strand and the end of any other; a later line replaces an earlier
load_gene_tss_from_gtf(gtf) ==
    LET genes == {k \in 1..Len(GtfLines) : GtfLines[k].feature = "gene"}
        line_of(g) == CHOOSE k \in genes :
                      /\ Upper(GtfLines[k].gene_name) = g
                      /\ \A j \in genes : Upper(GtfLines[j].gene_name) = g => j <= k
    IN  [g \in {Upper(GtfLines[k].gene_name) : k \in genes} |->
            LET l == GtfLines[line_of(g)]
            IN  <<StripChr(l.seqname), IF l.strand = "+" THEN l.start ELSE l.end>>]

\* line 133: int(float(row["BP"])), NaN standing for the exception
BpToInt(cell) ==
    CASE cell = "1500000" -> Num(1500000) [] cell = "2000000" -> Num(2000000) [] OTHER -> NaN

\* lines 125-136: the row lies on the chromosome of its gene, min_bp or more
\* from the TSS of the gene
far_samechr(r, gene_tss, min_bp) ==
    LET g == Upper(r.pheno_gene)
    IN  /\ g \in DOMAIN gene_tss
        /\ gene_tss[g][1] = r.SNP_CHR
        /\ notna(BpToInt(r.bp))
        /\ Abs(Val(BpToInt(r.bp)) - gene_tss[g][2]) >= min_bp

\* lines 121-122: --trans-only with --samechr-min-mb and a --gtf
WithGtf(a) == a.trans_only /\ notna(a.samechr_min_mb) /\ a.gtf # ""

\* lines 116-141: under --trans-only the rows whose pheno_chr and SNP_CHR
\* differ as text, and with a gtf those far from the TSS of their gene too
\* (min_bp = int(samechr_min_mb * 1_000_000))
trans_only_filter(df, a) ==
    IF ~a.trans_only THEN df
    ELSE LET keep(r) ==
                 \/ r.pheno_chr # r.SNP_CHR
                 \/ /\ WithGtf(a)
                    /\ far_samechr(r, load_gene_tss_from_gtf(a.gtf),
                                   Val(a.samechr_min_mb) * 1000000)
         IN  SelectSeq(df, keep)

\* line 150, inside statsmodels: pvals_sorted / ecdffactor, with
\* ecdffactor = arange(1, n + 1) / float(n).  The units in the last place
\* between  p / (rank / m), both quotients rounded to nearest, and the float64
\* nearest the exact p * m / rank, for the p-values the inputs of
\* transcis_v2 hold (0.01 and 0.5), for m up to 5: 0.01 / (1 / 3) is
\* 0.030000000000000002 and 0.01 / (2 / 3) is 0.015000000000000001.
ecdf_dev(v, m, k) ==
    LET key == <<v, m, k>>
    IN
    CASE key = <<100000, 3, 1>>        -> 1
      [] key = <<100000, 3, 2>>        -> 1
      [] key = <<100000, 5, 1>>        -> 0 - 1
      [] key = <<100000, 5, 2>>        -> 0 - 1
      [] key = <<100000, 5, 4>>        -> 0 - 1
      [] OTHER -> 0

\* line 150, inside statsmodels: pvals_corrected_raw = pvals_sorted / ecdffactor
ecdf_raw(p, ord) ==
    [k \in 1..Len(ord) |->
        QNum((Val(p[ord[k]]) * BhM(p) * QUnit) \div k,
             ecdf_dev(Val(p[ord[k]]), BhM(p), k))]

\* line 150: multipletests(p, method="fdr_bh")[1] of statsmodels on a vector
\* that is not empty and has no NaN: the values sorted, divided by
\* rank / m, lowered by np.minimum.accumulate from the right, set to 1 where
\* they pass 1, and put back in input order.  Its p-values are above 0, so
\* equal ones get equal values and the order the sort leaves them in does
\* not show.
multipletests_fdr_bh(p) ==
    LET ord == StableOrder(p)
    IN  scatter(p, ord, clip_upper(q_mon(ecdf_raw(p, ord))))

\* line 150: all_df["q_bh"] = multipletests(all_df["P"].values, ...)[1]
attach_q_v2(coll) ==
    LET qv == multipletests_fdr_bh(p_column(coll))
    IN  [k \in 1..Len(coll) |-> WithQ(coll[k], qv[k])]

\* v2 line 162: sig.sort_values(["q_bh", "P", "pheno_gene", "SNP"], kind="mergesort")
sort_sig(sg) ==
    LET keys == [k \in 1..Len(sg) |->
                    <<Val(sg[k].q), Dev(sg[k].q), Val(sg[k].p),
                      StrRank(sg[k].pheno_gene), StrRank(sg[k].snp)>>]
    IN  stable_sort(sg, keys)

----------------------------------------------------------------------------
(* finemap_pip.py: main, up to the locus (lines 21-42) *)

\* line 23: the required columns
FmColumns == {"CHR", "SNP", "BP", "A1", "TEST", "NMISS", "BETA", "STAT", "P"}
\* the headers of the fine-mapper's input: complete, or one column short
FmColSets == {FmColumns} \cup {FmColumns \ {c} : c \in FmColumns}

BetaCells == {"0", "0.5", "NA"}
\* the text of a STAT cell: 6000 is a statistic whose logABF, about
\* STAT^2 / 2, lies above 2^24, where float64 are 3.7e-9 apart
StatCells == {"0", "2", "4", "60", "6000", "NA"}

\* the rows of a PLINK table, as <<TEST, BETA, STAT>>: the additive test of a
\* variant with the effect 0.5 and any statistic, with no effect and a
\* statistic of 0 or 2, or with no estimate; and a row of another test
FmCells ==
    {<<"ADD", "0.5", st>> : st \in StatCells}
    \cup {<<"ADD", "0", "0">>, <<"ADD", "0", "2">>, <<"ADD", "NA", "2">>,
          <<"DOMDEV", "0.5", "2">>}

\* P is NA exactly when STAT is.  CHR, BP, SNP and A1 are present and well
\* formed in every row.
FmRows ==
    {[test |-> c[1], beta |-> c[2], stat |-> c[3],
      p |-> IF c[3] = "NA" THEN "NA" ELSE "0.01"] : c \in FmCells}

\* the inputs of the fine-mapper: a file that does not read, a complete
\* table, or a table one column short (whose rows are never looked at)
FmFiles ==
    {[kind |-> k, cols |-> {}, rows |-> <<>>] : k \in {"empty", "unparsable"}}
    \cup {[kind |-> "table", cols |-> FmColumns, rows |-> r] : r \in SeqsUpTo(FmRows, MaxRows)}
    \cup {[kind |-> "table", cols |-> c, rows |-> r] :
              c \in FmColSets \ {FmColumns}, r \in SeqsUpTo(FmRows, 1)}

FmTagged(f) ==
    [k \in 1..Len(f.rows) |->
        [src |-> 1, k |-> k, test |-> f.rows[k].test, beta |-> f.rows[k].beta,
         stat |-> f.rows[k].stat, p |-> f.rows[k].p]]

\* line 33: pd.to_numeric(df[c], errors="coerce") on a BETA or a STAT cell:
\* the number in hundredths (a STAT of 6000 is too large for the unit of the
\* p-values), NaN for anything else
fm_to_numeric(cell) ==
    CASE cell = "0"    -> Num(0)
      [] cell = "0.5"  -> Num(50)
      [] cell = "2"    -> Num(200)
      [] cell = "4"    -> Num(400)
      [] cell = "60"   -> Num(6000)
      [] cell = "6000" -> Num(600000)
      [] OTHER         -> NaN

\* lines 32-33: the numeric columns
fm_numeric(df) ==
    [k \in 1..Len(df) |->
        [df[k] EXCEPT !.beta = fm_to_numeric(@), !.stat = fm_to_numeric(@),
                      !.p = ToNumeric(@)]]

\* line 36: dropna(subset=[..., "BETA", "STAT", "P"])
fm_dropna(df) ==
    LET keep(r) == notna(r.beta) /\ notna(r.stat) /\ notna(r.p) IN SelectSeq(df, keep)

\* line 37: df = df[df["STAT"] != 0]
fm_stat_nonzero(df) == LET keep(r) == Val(r.stat) # 0 IN SelectSeq(df, keep)

\* line 40: SE = |BETA| / |STAT|, kept as the fraction <<|BETA|, |STAT|>>.  With
\* STAT = 0 the quotient is inf, which replace() turns into NaN, or 0/0 = NaN.
fm_se(df) ==
    [k \in 1..Len(df) |->
        [se |-> IF Val(df[k].stat) = 0 THEN NaN
                ELSE <<Abs(Val(df[k].beta)), Abs(Val(df[k].stat))>>] @@ df[k]]

\* line 41 alone: the rows whose SE is a number, 0 included
fm_se_notna(df) == LET keep(r) == notna(r.se) IN SelectSeq(df, keep)

\* lines 41-42: dropna(subset=["SE"]) and df = df[df["SE"] > 0]
fm_se_positive(df) == LET keep(r) == notna(r.se) /\ r.se[1] > 0 IN SelectSeq(df, keep)

\* lines 27-36 alone: the rows of the test with their numbers, whatever the
\* statistic and the standard error are
fm_locus_unfiltered(df, cols) ==
    fm_se(fm_dropna(fm_numeric(filter_test(df, cols, "ADD"))))

\* lines 27-42: the locus
fm_locus(df, cols) ==
    fm_se_positive(fm_se(fm_stat_nonzero(fm_dropna(fm_numeric(filter_test(df, cols, "ADD"))))))

----------------------------------------------------------------------------
(* finemap_pip.py: main, from the locus to the credible set (lines 44-77),  *)
(* and logsumexp (lines 6-10).  logABF is counted in hundredths and the    *)
(* exponential of a difference of two logABF in units of 1/ExpOne; a PIP   *)
(* and a cumulative PIP are <<numerator, denominator, deviation>>: the      *)
(* quotient, and the distance of the code's double from it in units of     *)
(* 1e-18.                                                                  *)

\* exp(0) in the unit of the exponentials
ExpOne == 100000
\* exp(x) is 0.0 in float64 from x = -745.14 down, in hundredths
ExpUnderflow == 74514

\* lines 45-54: Z = BETA/SE, r = W/SE^2 and Wakefield's
\* logABF = -0.5*log1p(r) + z*z*r / (2*(1 + r)), for --prior-sd 0.25 (W = 0.0625),
\* to the hundredth:
\*   BETA 0.5, STAT 2:    SE 0.25,    r = 1,       logABF =        0.6534
\*   BETA 0.5, STAT 4:    SE 0.125,   r = 4,       logABF =        5.5953
\*   BETA 0.5, STAT 60:   SE 1/120,   r = 900,     logABF =     1794.6005
\*   BETA 0.5, STAT 6000: SE 1/12000, r = 9000000, logABF = 17999989.9936
\* and NaN for a row whose SE is 0 (Z = 0/0 = NaN, r = W/0 = inf) or NaN: a
\* row lines 41-42 have removed from the locus
wakefield_logabf(r) ==
    CASE r.se = <<50, 200>>    -> Num(65)
      [] r.se = <<50, 400>>    -> Num(560)
      [] r.se = <<50, 6000>>   -> Num(179460)
      [] r.se = <<50, 600000>> -> Num(1799998999)
      [] OTHER                 -> NaN

\* np.exp of a difference d <= 0 of two of these logABF: 0.0 once d is under
\* the smallest double, and above that the value to five decimals:
\* exp(0.6534264097200273 - 5.5952810437829505) = 0.00714
exp_of(d) ==
    CASE d <= 0 - ExpUnderflow -> 0
      [] d = 0                 -> ExpOne
      [] d = 0 - 495           -> 714

SeqMax(a) == CHOOSE x \in {a[k] : k \in 1..Len(a)} : \A k \in 1..Len(a) : a[k] <= x

RECURSIVE SeqSum(_)
SeqSum(a) == IF a = <<>> THEN 0 ELSE Head(a) + SeqSum(Tail(a))

\* the entries of a vector that are numbers
Finite(a) == SelectSeq(a, notna)

\* lines 7-10, on a vector that is not empty: m = np.nanmax(a), which leaves
\* out the NaN and is NaN when there is nothing else, and then NaN is
\* returned; else m + log(nansum(exp(a - m))), kept as m and the sum
logsumexp(a) ==
    IF Finite(a) = <<>> THEN NaN
    ELSE LET v == [k \in 1..Len(Finite(a)) |-> Val(Finite(a)[k])]
             m == SeqMax(v)
         IN  [m |-> m, sum |-> SeqSum([k \in 1..Len(v) |-> exp_of(v[k] - m)])]

\* lines 56-57 in float64.  lse = m + log(sum) is rounded to a float64, at
\* most half the spacing of the float64 at lse away from the exact sum, and
\* np.exp(logabf - lse) carries that rounding into every PIP: the PIP the
\* code holds is the exact quotient exp(logabf - m) / sum times
\* exp(exact lse - float64 lse), rounded once more.  pip_dev is the distance
\* of that PIP from the exact quotient, float64 minus exact, in units of
\* 1e-18, as float64 arithmetic gives it for a row with this logABF in a
\* locus with this maximum and this sum; the key is <<m, sum, logABF>>.
\*   two rows with STAT 2 or 4: lse is rounded at a spacing of 2.2e-16 and
\*     each PIP is 0.49999999999999994;
\*   two rows with STAT 60: lse = 1794.6004671270227 + 0.6931471805599453 is
\*     rounded at a spacing of 2.3e-13, each PIP is 0.5000000000000275;
\*   two rows with STAT 6000: lse = 17999989.9936326 + 0.6931471805599453 is
\*     rounded at a spacing of 3.7e-9 to 17999990.68677978, 1.82e-9 under the
\*     exact sum, and each PIP is 0.500000000910318; three such rows have
\*     the PIP 0.333333332930788, four 0.2499999999789954.
\* A lone largest row has log(sum) = 0 and the PIP 1.0.  The lines cover
\* every locus of up to five rows over the STAT cells of the model; a PIP
\* that is not listed is the exact quotient to 1e-18.
pip_dev(la, lse) ==
    LET key == <<lse.m, lse.sum, la>>
    IN
    CASE key = <<65, 200000, 65>>                -> 0 - 56
      [] key = <<65, 300000, 65>>                -> 0 - 19
      [] key = <<65, 400000, 65>>                -> 0 - 56
      [] key = <<65, 500000, 65>>                -> 0 - 17
      [] key = <<560, 100714, 65>>               -> 0 - 3
      [] key = <<560, 100714, 560>>              -> 0 - 458
      [] key = <<560, 101428, 65>>               -> 0 - 3
      [] key = <<560, 101428, 560>>              -> 0 - 322
      [] key = <<560, 102142, 65>>               -> 0 - 3
      [] key = <<560, 102142, 560>>              -> 0 - 458
      [] key = <<560, 102856, 65>>               -> 0 - 1
      [] key = <<560, 102856, 560>>              -> 0 - 137
      [] key = <<560, 200000, 560>>              -> 0 - 56
      [] key = <<560, 200714, 65>>               -> 1
      [] key = <<560, 200714, 560>>              -> 169
      [] key = <<560, 201428, 65>>               -> 1
      [] key = <<560, 201428, 560>>              -> 160
      [] key = <<560, 202142, 560>>              -> 0 - 97
      [] key = <<560, 300000, 560>>              -> 0 - 130
      [] key = <<560, 300714, 560>>              -> 0 - 14
      [] key = <<560, 301428, 560>>              -> 1
      [] key = <<560, 400000, 560>>              -> 0 - 56
      [] key = <<560, 400714, 65>>               -> 1
      [] key = <<560, 400714, 560>>              -> 129
      [] key = <<560, 500000, 560>>              -> 0 - 17
      [] key = <<179460, 200000, 179460>>        -> 27534
      [] key = <<179460, 300000, 179460>>        -> 0 - 18171
      [] key = <<179460, 400000, 179460>>        -> 27478
      [] key = <<179460, 500000, 179460>>        -> 13639
      [] key = <<1799998999, 200000, 1799998999>> -> 910318043
      [] key = <<1799998999, 300000, 1799998999>> -> 0 - 402545349
      [] key = <<1799998999, 400000, 1799998999>> -> 0 - 21004587
      [] key = <<1799998999, 500000, 1799998999>> -> 0 - 53692012
      [] OTHER -> 0

\* line 57: np.exp(logabf - lse), as <<exp(logabf - m), sum, deviation>>: the
\* quotient of the first two and the distance of the double from it; NaN
\* when logabf or lse is
pip_of(la, lse) ==
    IF isna(la) \/ isna(lse) THEN NaN
    ELSE <<exp_of(Val(la) - lse.m), lse.sum, pip_dev(Val(la), lse)>>

\* lines 45-58: the columns logABF and PIP
fm_pip(df) ==
    LET la  == [k \in 1..Len(df) |-> wakefield_logabf(df[k])]
        lse == logsumexp(la)
    IN  [k \in 1..Len(df) |-> [logabf |-> la[k], pip |-> pip_of(la[k], lse)] @@ df[k]]

\* line 61: every index sort_values("PIP", ascending=False) may return: the
\* PIPs in descending order, equal ones in any order (its quicksort is not
\* stable), and behind them the rows whose PIP is NaN, in the order they had
DescOrders(df) ==
    {ord \in [1..Len(df) -> 1..Len(df)] :
        /\ \A i, j \in 1..Len(df) : ord[i] = ord[j] => i = j
        /\ \A i \in 1..(Len(df) - 1) :
              \/ /\ notna(df[ord[i]].pip) /\ notna(df[ord[i + 1]].pip)
                 /\ df[ord[i]].pip[1] >= df[ord[i + 1]].pip[1]
              \/ /\ notna(df[ord[i]].pip) /\ isna(df[ord[i + 1]].pip)
              \/ /\ isna(df[ord[i]].pip) /\ isna(df[ord[i + 1]].pip)
                 /\ ord[i] < ord[i + 1]}

\* line 62 in float64: the distance of the k-th running sum of the PIPs, in
\* descending order, from the exact one, in units of 1e-18: the distances of
\* the PIPs added so far, and the rounding of each addition; the key is
\* <<m, sum, k>>.  Two rows with STAT 2 have the CUM_PIP 0.49999999999999994
\* and 0.9999999999999999, three end on 1.0 itself; two rows with STAT 60
\* have 0.5000000000000275 and 1.000000000000055; two rows with STAT 6000
\* have 0.500000000910318 and 1.000000001820636, three end on
\* 0.999999998792364.
cum_dev(lse, k) ==
    LET key == <<lse.m, lse.sum, k>>
    IN
    CASE key = <<65, 200000, 1>>                 -> 0 - 56
      [] key = <<65, 200000, 2>>                 -> 0 - 111
      [] key = <<65, 300000, 1>>                 -> 0 - 19
      [] key = <<65, 300000, 2>>                 -> 0 - 37
      [] key = <<65, 400000, 1>>                 -> 0 - 56
      [] key = <<65, 400000, 2>>                 -> 0 - 111
      [] key = <<65, 400000, 3>>                 -> 0 - 222
      [] key = <<65, 400000, 4>>                 -> 0 - 222
      [] key = <<65, 500000, 1>>                 -> 0 - 17
      [] key = <<65, 500000, 2>>                 -> 0 - 33
      [] key = <<65, 500000, 3>>                 -> 0 - 22
      [] key = <<65, 500000, 4>>                 -> 0 - 67
      [] key = <<65, 500000, 5>>                 -> 0 - 111
      [] key = <<560, 100714, 1>>                -> 0 - 458
      [] key = <<560, 100714, 2>>                -> 0 - 444
      [] key = <<560, 101428, 1>>                -> 0 - 322
      [] key = <<560, 101428, 2>>                -> 0 - 272
      [] key = <<560, 101428, 3>>                -> 0 - 222
      [] key = <<560, 102142, 1>>                -> 0 - 458
      [] key = <<560, 102142, 2>>                -> 0 - 453
      [] key = <<560, 102142, 3>>                -> 0 - 449
      [] key = <<560, 102142, 4>>                -> 0 - 444
      [] key = <<560, 102856, 1>>                -> 0 - 137
      [] key = <<560, 102856, 2>>                -> 0 - 130
      [] key = <<560, 102856, 3>>                -> 0 - 124
      [] key = <<560, 102856, 4>>                -> 0 - 117
      [] key = <<560, 102856, 5>>                -> 0 - 111
      [] key = <<560, 200000, 1>>                -> 0 - 56
      [] key = <<560, 200000, 2>>                -> 0 - 111
      [] key = <<560, 200714, 1>>                -> 169
      [] key = <<560, 200714, 2>>                -> 339
      [] key = <<560, 200714, 3>>                -> 444
      [] key = <<560, 201428, 1>>                -> 160
      [] key = <<560, 201428, 2>>                -> 319
      [] key = <<560, 201428, 3>>                -> 326
      [] key = <<560, 201428, 4>>                -> 222
      [] key = <<560, 202142, 1>>                -> 0 - 97
      [] key = <<560, 202142, 2>>                -> 0 - 195
      [] key = <<560, 202142, 3>>                -> 0 - 204
      [] key = <<560, 202142, 4>>                -> 0 - 213
      [] key = <<560, 202142, 5>>                -> 0 - 222
      [] key = <<560, 300000, 1>>                -> 0 - 130
      [] key = <<560, 300000, 2>>                -> 0 - 259
      [] key = <<560, 300000, 3>>                -> 0 - 444
      [] key = <<560, 300714, 1>>                -> 0 - 14
      [] key = <<560, 300714, 2>>                -> 0 - 28
      [] key = <<560, 300714, 3>>                -> 14
      [] key = <<560, 301428, 1>>                -> 1
      [] key = <<560, 301428, 2>>                -> 1
      [] key = <<560, 301428, 3>>                -> 0 - 53
      [] key = <<560, 301428, 4>>                -> 0 - 27
      [] key = <<560, 400000, 1>>                -> 0 - 56
      [] key = <<560, 400000, 2>>                -> 0 - 111
      [] key = <<560, 400000, 3>>                -> 0 - 222
      [] key = <<560, 400000, 4>>                -> 0 - 222
      [] key = <<560, 400714, 1>>                -> 129
      [] key = <<560, 400714, 2>>                -> 259
      [] key = <<560, 400714, 3>>                -> 416
      [] key = <<560, 400714, 4>>                -> 517
      [] key = <<560, 400714, 5>>                -> 444
      [] key = <<560, 500000, 1>>                -> 0 - 17
      [] key = <<560, 500000, 2>>                -> 0 - 33
      [] key = <<560, 500000, 3>>                -> 0 - 22
      [] key = <<560, 500000, 4>>                -> 0 - 67
      [] key = <<560, 500000, 5>>                -> 0 - 111
      [] key = <<179460, 200000, 1>>             -> 27534
      [] key = <<179460, 200000, 2>>             -> 55067
      [] key = <<179460, 300000, 1>>             -> 0 - 18171
      [] key = <<179460, 300000, 2>>             -> 0 - 36341
      [] key = <<179460, 300000, 3>>             -> 0 - 54512
      [] key = <<179460, 400000, 1>>             -> 27478
      [] key = <<179460, 400000, 2>>             -> 54956
      [] key = <<179460, 400000, 3>>             -> 82379
      [] key = <<179460, 400000, 4>>             -> 109912
      [] key = <<179460, 500000, 1>>             -> 13639
      [] key = <<179460, 500000, 2>>             -> 27278
      [] key = <<179460, 500000, 3>>             -> 40945
      [] key = <<179460, 500000, 4>>             -> 54556
      [] key = <<179460, 500000, 5>>             -> 68168
      [] key = <<1799998999, 200000, 1>>         -> 910318043
      [] key = <<1799998999, 200000, 2>>         -> 1820636086
      [] key = <<1799998999, 300000, 1>>         -> 0 - 402545349
      [] key = <<1799998999, 300000, 2>>         -> 0 - 805090698
      [] key = <<1799998999, 300000, 3>>         -> 0 - 1207635991
      [] key = <<1799998999, 400000, 1>>         -> 0 - 21004587
      [] key = <<1799998999, 400000, 2>>         -> 0 - 42009174
      [] key = <<1799998999, 400000, 3>>         -> 0 - 63013816
      [] key = <<1799998999, 400000, 4>>         -> 0 - 84018348
      [] key = <<1799998999, 500000, 1>>         -> 0 - 53692012
      [] key = <<1799998999, 500000, 2>>         -> 0 - 107384024
      [] key = <<1799998999, 500000, 3>>         -> 0 - 161076064
      [] key = <<1799998999, 500000, 4>>         -> 0 - 214768048
      [] key = <<1799998999, 500000, 5>>         -> 0 - 268460032
      [] OTHER -> 0

\* lines 61-62: the rows in that order, with CUM_PIP = PIP.cumsum() as
\* <<running sum of the numerators, sum, deviation>>.  A PIP of 0.0 leaves
\* the running sum as it is: the deviation is that of the rows before it.
\* cumsum() leaves a NaN where the PIP is NaN.
fm_sorted(df, ord) ==
    LET sorted == [k \in 1..Len(df) |-> df[ord[k]]]
        lse    == logsumexp([k \in 1..Len(df) |-> df[k].logabf])
        nz(k)  == Cardinality({j \in 1..k : notna(sorted[j].pip) /\ sorted[j].pip[1] > 0})
        num(j) == IF notna(sorted[j].pip) THEN sorted[j].pip[1] ELSE 0
    IN  [k \in 1..Len(df) |->
            [cum |-> IF isna(sorted[k].pip) THEN NaN
                     ELSE <<SeqSum([j \in 1..k |-> num(j)]), sorted[k].pip[2],
                            cum_dev(lse, nz(k))>>]
            @@ sorted[k]]

\* CUM_PIP <= c and CUM_PIP < c, c in hundredths: the quotient decides, and
\* where it is c itself, the side of it the double lies on; a NaN is neither
CumLeq(r, c) ==
    /\ notna(r.cum)
    /\ \/ r.cum[1] * 100 < c * r.cum[2]
       \/ r.cum[1] * 100 = c * r.cum[2] /\ r.cum[3] <= 0
CumLess(r, c) ==
    /\ notna(r.cum)
    /\ \/ r.cum[1] * 100 < c * r.cum[2]
       \/ r.cum[1] * 100 = c * r.cum[2] /\ r.cum[3] < 0

\* lines 70-74: the rows with CUM_PIP <= c; when there is none, or all of
\* them are under c, the rows up to the first whose CUM_PIP is not under c
\* (searchsorted, side="left"), which iloc cuts at the end of the table
credible_set(df, c) ==
    LET LeqC(r) == CumLeq(r, c)
        cred0   == SelectSeq(df, LeqC)
        k       == Cardinality({j \in 1..Len(df) : CumLess(df[j], c)})
    IN  IF Len(df) > 0 /\ (cred0 = <<>> \/ \A j \in 1..Len(cred0) : CumLess(cred0[j], c))
        THEN SubSeq(df, 1, Min2(k + 1, Len(df)))
        ELSE cred0

----------------------------------------------------------------------------
(* History of a run: the rows an aggregator is to keep *)

\* the rows of a collection as the input gave them: the file, the line, the
\* test type and the p-value, without the columns the run added
StripQ(coll) ==
    [k \in 1..Len(coll) |->
        [src |-> coll[k].src, k |-> coll[k].k, test |-> coll[k].test, p |-> coll[k].p]]

\* a file the aggregator can take rows from
Ingestible(s, f) ==
    /\ f.kind = "table"
    /\ s = "transcis_v2" =>
          /\ parse_meta(f.name)[1] # "" /\ parse_meta(f.name)[2] # ""
          /\ {"CHR", "SNP", "P"} \subseteq f.cols

\* the row r of file f passes the filter the run is configured with: under
\* --trans-only of transcis_v2 its CHR cell is not the chromosome in the name
\* of the file, or it lies far from the TSS of the gene in that name
Survives(s, f, r) ==
    (s = "transcis_v2" /\ args.trans_only) =>
        \/ r.chr # parse_meta(f.name)[1]
        \/ /\ WithGtf(args)
           /\ far_samechr([pheno_gene |-> parse_meta(f.name)[2], SNP_CHR |-> r.chr,
                           bp |-> r.bp],
                          load_gene_tss_from_gtf(args.gtf),
                          Val(args.samechr_min_mb) * 1000000)

\* the usable rows of file number idx: those of the target test type (every
\* row, when the file has no TEST column) whose P cell is a number and that
\* pass the configured filter
UsableRows(s, tgt, f, idx) ==
    IF ~Ingestible(s, f) THEN <<>>
    ELSE LET keep(r) == /\ ("TEST" \in f.cols => r.test = tgt)
                        /\ "P" \in f.cols
                        /\ notna(r.p)
                        /\ Survives(s, f, r)
         IN  StripQ(SelectSeq(numeric_p(Tagged(f, idx)), keep))

----------------------------------------------------------------------------
(* SpecRun: one run of one of the three scripts *)

Aggregators == {"trans", "transcis_v2"}

IdleBH == pvals = <<>> /\ order = <<>> /\ q = <<>> /\ bh_pc = "idle"

\* --p-raw and --q-fdr: the defaults 5e-6 and 0.1, and for the tables that
\* differ in their cells the values 0.01 and 0.5 their rows meet
PRawDefault == 50
QFdrDefault == AsQ(10 * Cent)
Thresholds == {Cent, 50 * Cent}
\* --credible, in hundredths: a half, the default 0.95, and 1.0
CredibleDefault == 95
Coverages == {50, CredibleDefault, 100}

\* a raw-p threshold of 1e-7 in the place of the default
StricterArgs ==
    [p_raw |-> 1, q_fdr |-> QFdrDefault, credible |-> CredibleDefault,
     trans_only |-> FALSE, gtf |-> "", samechr_min_mb |-> NaN]

\* the defaults; --trans-only is off, --gtf and --samechr-min-mb are None
DefaultArgs ==
    [p_raw |-> PRawDefault, q_fdr |-> QFdrDefault, credible |-> CredibleDefault,
     trans_only |-> FALSE, gtf |-> "", samechr_min_mb |-> NaN]

\* --trans-only, --gtf and --samechr-min-mb (in Mb) of transcis_v2: off;
\* --trans-only alone; and with a threshold of 1 Mb and a gtf
V2Flags ==
    {<<FALSE, "", NaN>>, <<TRUE, "", NaN>>}
    \cup {<<TRUE, g, Num(1)>> : g \in Gtfs \ {""}}

WithFlags(a, f) == [a EXCEPT !.trans_only = f[1], !.gtf = f[2], !.samechr_min_mb = f[3]]

\* main() is entered: nothing is read, corrected or written
AtStart ==
    /\ pc = "start" /\ exit = ""
    /\ nread = 0 /\ seen = 0 /\ cur = <<>> /\ last = "none"
    /\ rows = <<>> /\ usable = <<>> /\ out = <<>>
    /\ bh_calls = 0 /\ m_used = 0
    /\ written = <<>> /\ sig = <<>> /\ top = <<>> /\ cred = <<>>
    /\ IdleBH

InitRun ==
    /\ script \in {"trans", "transcis_v2", "finemap"}
    \* --test of transcis_v2; the two other scripts keep "ADD"
    /\ target \in (IF script = "transcis_v2" THEN Tests ELSE {"ADD"})
    /\ inputs = "headers"
    /\ args \in (CASE script = "finemap" ->
                        {[DefaultArgs EXCEPT !.credible = c] : c \in Coverages}
                   \* the tables of this family hold the chromosome of
                   \* their name alone: --trans-only drops every row
                   [] script = "transcis_v2" ->
                        {WithFlags(DefaultArgs, f) : f \in {<<FALSE, "", NaN>>, <<TRUE, "", NaN>>}}
                   [] OTHER -> {DefaultArgs})
    /\ AtStart

Ended(msg) == pc' = "exit" /\ exit' = msg

\* trans lines 58-60, v2 lines 69-72: the listing; no file is fatal
Glob ==
    /\ script \in Aggregators /\ pc = "start"
    /\ \E found \in BOOLEAN :
          IF found THEN pc' = "loop" /\ exit' = exit
          ELSE Ended("fatal: no assoc files")
    /\ UNCHANGED <<bhvars, conf, nread, seen, cur, last, rows, usable, out,
                   bh_calls, m_used, written, sig, top, cred>>

\* trans lines 63-114: the loop takes the next file of the listing
ReadTrans ==
    /\ script = "trans" /\ pc = "loop" /\ nread < FileCap(inputs)
    /\ \E f \in AggFiles(inputs, script, target, RowCap(inputs) - seen) :
          LET r == trans_file(f, nread + 1)
          IN  /\ cur' = f
              /\ last' = r.tag
              /\ rows' = append_frame(rows, r.add)
              /\ usable' = usable \o UsableRows(script, target, f, nread + 1)
              /\ seen' = seen + Len(f.rows)
              /\ IF r.tag = "raised" THEN Ended("raised: KeyError 'P'")
                 ELSE pc' = pc /\ exit' = exit
    /\ nread' = nread + 1
    /\ UNCHANGED <<bhvars, conf, out, bh_calls, m_used, written, sig, top, cred>>

\* lines 116-124 with the all-rows table written ahead of the check of line
\* 116: the run without a row leaves a table behind it
EndLoopTrans_write_first ==
    /\ script = "trans" /\ pc = "loop" /\ nread >= 1
    /\ IF rows = <<>>
       THEN Ended("fatal: no valid rows") /\ out' = out /\ written' = Append(written, "all")
       ELSE pc' = "bh" /\ exit' = exit /\ out' = rows /\ written' = written
    /\ UNCHANGED <<bhvars, conf, nread, seen, cur, last, rows, usable,
                   bh_calls, m_used, sig, top, cred>>

\* trans lines 116-119: the listing is exhausted
EndLoopTrans ==
    /\ script = "trans" /\ pc = "loop" /\ nread >= 1
    /\ IF rows = <<>>
       THEN Ended("fatal: no valid rows") /\ out' = out
       ELSE pc' = "bh" /\ exit' = exit /\ out' = rows
    /\ UNCHANGED <<bhvars, conf, nread, seen, cur, last, rows, usable,
                   bh_calls, m_used, written, sig, top, cred>>

\* trans line 121
CorrectTrans ==
    /\ script = "trans" /\ pc = "bh"
    /\ \E ord \in SortOrders(p_column(out)) : out' = attach_q(out, ord)
    /\ bh_calls' = bh_calls + 1
    /\ m_used' = BhM(p_column(out))
    /\ pc' = "write_all"
    /\ UNCHANGED <<bhvars, conf, exit, nread, seen, cur, last, rows, usable,
                   written, sig, top, cred>>

\* trans line 124, v2 lines 153-158: the all-rows table, which is `out`
WriteAll ==
    /\ script \in Aggregators /\ pc = "write_all"
    /\ written' = Append(written, "all")
    /\ pc' = "write_sig"
    /\ UNCHANGED <<bhvars, conf, exit, nread, seen, cur, last, rows, usable,
                   out, bh_calls, m_used, sig, top, cred>>

\* trans lines 127-128, v2 lines 161-166: the significant table, which v2
\* sorts before it writes it; v2 ends here
WriteSig ==
    /\ script \in Aggregators /\ pc = "write_sig"
    /\ sig' = IF script = "trans" THEN select_sig(out, args)
              ELSE sort_sig(select_sig(out, args))
    /\ written' = Append(written, "sig")
    /\ pc' = IF script = "trans" THEN "write_top" ELSE "done"
    /\ UNCHANGED <<bhvars, conf, exit, nread, seen, cur, last, rows, usable,
                   out, bh_calls, m_used, top, cred>>

\* trans lines 131-140: the top-hit table
WriteTop ==
    /\ script = "trans" /\ pc = "write_top"
    /\ top' = IF sig # <<>> THEN top_hits(sig) ELSE <<>>
    /\ written' = Append(written, "top")
    /\ pc' = "done"
    /\ UNCHANGED <<bhvars, conf, exit, nread, seen, cur, last, rows, usable,
                   out, bh_calls, m_used, sig, cred>>

\* v2 lines 75-103: the loop takes the next file of the listing
ReadV2 ==
    /\ script = "transcis_v2" /\ pc = "loop" /\ nread < FileCap(inputs)
    /\ \E f \in AggFiles(inputs, script, target, RowCap(inputs) - seen) :
          LET r == v2_file(f, nread + 1, target)
          IN  /\ cur' = f
              /\ last' = r.tag
              /\ rows' = append_frame(rows, r.add)
              /\ usable' = usable \o UsableRows(script, target, f, nread + 1)
              /\ seen' = seen + Len(f.rows)
    /\ nread' = nread + 1
    /\ UNCHANGED <<bhvars, conf, pc, exit, out, bh_calls, m_used, written, sig, top, cred>>

\* v2 lines 105-141: the listing is exhausted; P becomes numeric, the rows
\* without a p-value go, and under --trans-only the rows the filter drops.
\* open() of a gtf that does not exist raises (line 27).
EndLoopV2 ==
    /\ script = "transcis_v2" /\ pc = "loop" /\ nread >= 1
    /\ IF rows = <<>>
       THEN Ended("fatal: no usable rows") /\ out' = out
       ELSE IF WithGtf(args) /\ args.gtf = "missing.gtf"
       THEN Ended("raised: FileNotFoundError") /\ out' = out
       ELSE /\ pc' = "bh" /\ exit' = exit
            /\ out' = trans_only_filter(dropna_p(numeric_p(rows)), args)
    /\ UNCHANGED <<bhvars, conf, nread, seen, cur, last, rows, usable,
                   bh_calls, m_used, written, sig, top, cred>>

\* v2 lines 143-150.  Where statsmodels does not import the run ends on the
\* fatal check of lines 146-148 and nothing is corrected.  Where it does,
\* multipletests on an empty vector divides by len(pvals): a release that
\* computes 1./ntests raises ZeroDivisionError, one that guards the division
\* returns the empty vector.
CorrectV2 ==
    /\ script = "transcis_v2" /\ pc = "bh"
    /\ \/ /\ Ended("fatal: statsmodels needed")
          /\ UNCHANGED <<out, bh_calls, m_used>>
       \/ /\ out # <<>>
          /\ out' = attach_q_v2(out)
          /\ bh_calls' = bh_calls + 1 /\ m_used' = Len(out)
          /\ pc' = "write_all" /\ exit' = exit
       \/ /\ out = <<>>
          /\ out' = out
          /\ bh_calls' = bh_calls + 1 /\ m_used' = Len(out)
          /\ Ended("raised: ZeroDivisionError")
       \/ /\ out = <<>>
          /\ out' = out
          /\ bh_calls' = bh_calls + 1 /\ m_used' = Len(out)
          /\ pc' = "write_all" /\ exit' = exit
    /\ UNCHANGED <<bhvars, conf, nread, seen, cur, last, rows, usable, written, sig, top, cred>>

\* finemap lines 21-25: the table is read and its header checked
FmRead ==
    /\ script = "finemap" /\ pc = "start"
    /\ \E f \in FmFiles :
          /\ cur' = f
          /\ IF f.kind # "table"
             THEN Ended("raised: read_csv") /\ rows' = rows
             ELSE IF ~(FmColumns \subseteq f.cols)
             THEN Ended("fatal: missing column") /\ rows' = rows
             ELSE pc' = "fm_filter" /\ exit' = exit /\ rows' = FmTagged(f)
    /\ nread' = 1
    /\ UNCHANGED <<bhvars, conf, seen, last, usable, out, bh_calls, m_used,
                   written, sig, top, cred>>

\* finemap lines 27-42: the locus
FmLocus ==
    /\ script = "finemap" /\ pc = "fm_filter"
    /\ rows' = fm_locus(rows, cur.cols)
    /\ pc' = "fm_locus"
    /\ UNCHANGED <<bhvars, conf, exit, nread, seen, cur, last, usable, out,
                   bh_calls, m_used, written, sig, top, cred>>

\* finemap lines 44-62: logABF, PIP, the sort and the cumulative PIP.  On an
\* empty locus np.nanmax (line 7) raises ValueError.
FmPip ==
    /\ script = "finemap" /\ pc = "fm_locus"
    /\ IF rows = <<>>
       THEN Ended("raised: ValueError") /\ out' = out
       ELSE /\ \E ord \in DescOrders(fm_pip(rows)) : out' = fm_sorted(fm_pip(rows), ord)
            /\ pc' = "fm_write" /\ exit' = exit
    /\ UNCHANGED <<bhvars, conf, nread, seen, cur, last, rows, usable,
                   bh_calls, m_used, written, sig, top, cred>>

\* finemap lines 67-68: the PIP table
FmWritePip ==
    /\ script = "finemap" /\ pc = "fm_write"
    /\ written' = Append(written, "pip")
    /\ pc' = "fm_cred"
    /\ UNCHANGED <<bhvars, conf, exit, nread, seen, cur, last, rows, usable, out,
                   bh_calls, m_used, sig, top, cred>>

\* finemap lines 70-77: the credible set
FmCred ==
    /\ script = "finemap" /\ pc = "fm_cred"
    /\ cred' = credible_set(out, args.credible)
    /\ written' = Append(written, "cred")
    /\ pc' = "done"
    /\ UNCHANGED <<bhvars, conf, exit, nread, seen, cur, last, rows, usable, out,
                   bh_calls, m_used, sig, top>>

NextRun ==
    \/ Glob
    \/ ReadTrans \/ EndLoopTrans \/ CorrectTrans
    \/ ReadV2 \/ EndLoopV2 \/ CorrectV2
    \/ WriteAll \/ WriteSig \/ WriteTop
    \/ FmRead \/ FmLocus \/ FmPip \/ FmWritePip \/ FmCred

SpecRun == InitRun /\ [][NextRun]_vars

----------------------------------------------------------------------------
(* SpecTables: the runs of the two aggregators over tables that differ in   *)
(* the cells of their rows, under thresholds their p- and q-values meet     *)

InitTables ==
    /\ script \in Aggregators
    /\ target = "ADD"
    /\ inputs = "cells"
    \* transcis_v2 with its filter on runs under the wider thresholds
    /\ args \in {[DefaultArgs EXCEPT !.p_raw = a, !.q_fdr = AsQ(b)] :
                    a \in Thresholds, b \in Thresholds}
                \cup (IF script = "transcis_v2"
                      THEN {WithFlags([DefaultArgs EXCEPT !.p_raw = 50 * Cent,
                                                          !.q_fdr = AsQ(50 * Cent)], f) :
                                f \in V2Flags}
                      ELSE {})
    /\ AtStart

NextAgg ==
    \/ Glob
    \/ ReadTrans \/ EndLoopTrans \/ CorrectTrans
    \/ ReadV2 \/ EndLoopV2 \/ CorrectV2
    \/ WriteAll \/ WriteSig \/ WriteTop

SpecTables == InitTables /\ [][NextAgg]_vars

----------------------------------------------------------------------------
(* SpecScenario: collect_sig_genes_trans.py with its default thresholds over *)
(* a listing of one-row files with the p-values 1e-7, 5e-7 and 0.2          *)

InitScenario ==
    /\ script = "trans"
    /\ target = "ADD"
    /\ inputs = "scenario"
    /\ args = DefaultArgs
    /\ AtStart

NextTrans ==
    \/ Glob
    \/ ReadTrans \/ EndLoopTrans \/ CorrectTrans
    \/ WriteAll \/ WriteSig \/ WriteTop

SpecScenario == InitScenario /\ [][NextTrans]_vars

----------------------------------------------------------------------------
(* SpecSigned: collect_sig_genes_trans.py over tables whose p-values lie on  *)
(* both sides of 0, under thresholds on both sides of 0                      *)

\* --q-fdr: -0.15 and 0.5
SignedThresholds == {0 - 15 * Cent, 50 * Cent}

InitSigned ==
    /\ script = "trans"
    /\ target = "ADD"
    /\ inputs = "signed"
    /\ args \in {[DefaultArgs EXCEPT !.p_raw = a, !.q_fdr = AsQ(b)] :
                    a \in Thresholds, b \in SignedThresholds}
    /\ AtStart

SpecSigned == InitSigned /\ [][NextTrans]_vars

----------------------------------------------------------------------------
(* Claims about the runs, checked under SpecRun *)

Range(sq) == {sq[k] : k \in 1..Len(sq)}

\* the run ended on one of its own fatal checks
FatalExits ==
    {"fatal: no assoc files", "fatal: no valid rows", "fatal: no usable rows",
     "fatal: statsmodels needed"}

\* the positions of main() behind the loop of a run that goes on
PastLoop == {"bh", "write_all", "write_sig", "write_top", "done"}

\* the step-up value as statsmodels rounds it:
\* min(1.0, min over ranks s >= r of sp(s) / (s / m))
BHRoundedV2(sp, r) ==
    LET m == Len(sp)
    IN  QMin(QSetMin({QNum((sp[s] * m * QUnit) \div s, ecdf_dev(sp[s], m, s)) :
                         s \in r..m}),
             QExact(QOne))

\* C7: the correction runs once, behind the loop, over the whole final
\* collection: while files are being taken no correction has run and no row
\* has a q-value, and once the all-rows table is written the m of the one
\* correction is the number of its rows and every q-value is the adjusted
\* value of its p-value among the p-values of all of those rows.
C7_OneCorrectionOverAll ==
    script \in Aggregators =>
        /\ bh_calls <= 1
        /\ pc \in {"start", "loop", "bh"} =>
              /\ bh_calls = 0
              /\ \A k \in 1..Len(out) : "q" \notin DOMAIN out[k]
              /\ \A k \in 1..Len(rows) : "q" \notin DOMAIN rows[k]
        /\ "all" \in Range(written) =>
              /\ bh_calls = 1
              /\ m_used = Len(out)
              /\ \A k \in 1..Len(out) :
                    \E r \in 1..Len(out) :
                        /\ SortedVals(p_column(out))[r] = Val(out[k].p)
                        /\ Val(out[k].q) = BHAdjusted(SortedVals(p_column(out)), r)
                        /\ out[k].q = IF script = "trans"
                                      THEN BHRounded(SortedVals(p_column(out)), r)
                                      ELSE BHRoundedV2(SortedVals(p_column(out)), r)

\* C7's case: the all-rows table of a run that took rows from two files,
\* where a q-value is the double of its p-value (m = 2 shows in it)
C7_Witness ==
    /\ script \in Aggregators
    /\ "all" \in Range(written)
    /\ Len(out) = 2
    /\ out[1].src # out[2].src
    /\ \E k \in 1..2 : Val(out[k].q) = 2 * AsQ(Val(out[k].p))

\* C8: a run that has ended has ended on a fatal check exactly when no file
\* gave a usable row, and a run that writes its tables has a row to write.
C8_FatalIffNoUsableRow ==
    script \in Aggregators =>
        /\ pc \in {"exit", "done"} => (exit \in FatalExits <=> usable = <<>>)
        /\ "all" \in Range(written) => Len(out) >= 1

\* a file the loop is to pass over: it is empty, does not parse, has no row
\* left behind the test filter, or has a P column and no row left behind the
\* test and the p-value filters
IsSkipFile(tgt, f) ==
    \/ f.kind # "table"
    \/ \A k \in 1..Len(f.rows) : "TEST" \in f.cols /\ f.rows[k].test # tgt
    \/ /\ "P" \in f.cols
       /\ \A k \in 1..Len(f.rows) :
             \/ "TEST" \in f.cols /\ f.rows[k].test # tgt
             \/ isna(ToNumeric(f.rows[k].p))

\* the rows of what the loop has gathered that reach the final collection
Kept(s, gathered) == IF s = "trans" THEN gathered ELSE dropna_p(numeric_p(gathered))

C9_Final ==
    (script \in Aggregators /\ pc \in PastLoop) => StripQ(out) = usable

C9_Step ==
    (script \in Aggregators /\ nread' = nread + 1 /\ IsSkipFile(target, cur')) =>
        /\ pc' = "loop" /\ exit' = ""
        /\ Kept(script, rows') = Kept(script, rows)

\* C9: the step that takes a file that is empty, does not parse or has no row
\* left behind the filters adds no row to the collection and leaves the run
\* in its loop; and behind the loop the collection holds exactly the usable
\* rows of the files taken, in the order of the listing.
C9_SkipIsRecoverable == [](C9_Final) /\ [][C9_Step]_vars

\* C9's case: a finished run of two files whose first file gave no row and
\* whose second gave two
C9_Witness ==
    /\ script = "trans" /\ pc = "done" /\ nread = 2
    /\ Len(out) = 2 /\ out[1].src = 2 /\ out[2].src = 2

\* the collection or the locus of the run satisfies Ok(row) in every row:
\* what an aggregator has gathered and its final collection, the df of the
\* fine-mapper once the locus is built
EveryReachedRow(Ok(_)) ==
    /\ script \in Aggregators =>
          /\ \A k \in 1..Len(rows) : Ok(rows[k])
          /\ \A k \in 1..Len(out) : Ok(out[k])
    /\ (script = "finemap" /\ pc = "fm_locus") =>
          \A k \in 1..Len(rows) : Ok(rows[k])

\* C10 as stated: every row of the collection or the locus has the target
\* test type, whatever the input file.
C10_Original ==
    LET Ok(r) == r.test = target IN EveryReachedRow(Ok)

\* C10 amended: every row of the collection or the locus that comes from a
\* file with a TEST column has the target test type; the rows of a file
\* without a TEST column are not filtered by test type.
C10_TargetTestOnly ==
    LET Ok(r) == r.test # NoCol => r.test = target IN EveryReachedRow(Ok)

\* C10's case: the last file held a row of another test type beside a row of
\* the target type, and the run has built its collection or its locus
C10_Witness ==
    /\ pc \in {"done", "fm_locus"}
    /\ \E k \in 1..Len(cur.rows) : cur.rows[k].test \notin {target, NoCol}
    /\ LET coll == IF script = "finemap" THEN rows ELSE out
       IN  \E k \in 1..Len(coll) : coll[k].src = nread /\ coll[k].test = target

----------------------------------------------------------------------------
(* Claims about the tables of the aggregators, checked under SpecTables and *)
(* SpecScenario                                                             *)

\* the chromosome a file name names, and the integer a CHR cell denotes: a
\* set with that number, empty when there is none
NameChrs(name) == IF name = "run_chr1.G1.assoc.linear" THEN {1} ELSE {}
CellChrs(cell) ==
    CASE cell \in {"1", "01"} -> {1} [] cell = "2" -> {2} [] OTHER -> {}

\* C11: every row collect_sig_genes_trans.py gathers is labelled "cis" exactly
\* when the chromosome of its file name and the chromosome of its CHR cell are
\* both known and the same integer, "trans" exactly when both are known and
\* differ, and "NA" exactly when one of them is not known.
C11_CisTransLabel ==
    script = "trans" =>
        \A coll \in {rows, out} :
            \A k \in 1..Len(coll) :
                LET r     == coll[k]
                    known == NameChrs(r.source_file) # {} /\ CellChrs(r.chr) # {}
                    same  == NameChrs(r.source_file) = CellChrs(r.chr)
                IN  /\ r.cis_trans \in {"cis", "trans", "NA"}
                    /\ r.cis_trans = "cis"   <=> (known /\ same)
                    /\ r.cis_trans = "trans" <=> (known /\ ~same)
                    /\ r.cis_trans = "NA"    <=> ~known

\* C11's case: a finished run whose collection holds a row of chromosome "01"
\* labelled cis beside a row labelled trans
C11_Witness ==
    /\ script = "trans" /\ pc = "done"
    /\ \E k, j \in 1..Len(out) :
          /\ out[k].chr = "01" /\ out[k].cis_trans = "cis"
          /\ out[j].cis_trans = "trans"

\* the rows of the collection that meet both thresholds
MeetBoth ==
    {k \in 1..Len(out) :
        Val(out[k].p) <= args.p_raw /\ QLeq(out[k].q, QExact(args.q_fdr))}

\* C12: the significant table holds exactly the rows of the collection with
\* P <= the raw-p threshold and q <= the q threshold, each once.
C12_SigExact ==
    (script \in Aggregators /\ "sig" \in Range(written)) =>
        /\ Range(sig) = {out[k] : k \in MeetBoth}
        /\ Len(sig) = Cardinality(MeetBoth)

\* C12's case: of two rows the one whose p-value is the raw-p threshold is in
\* the table, and the one left out has the q threshold as its q-value
C12_Witness ==
    /\ "sig" \in Range(written)
    /\ Len(out) = 2 /\ Len(sig) = 1
    /\ Val(sig[1].p) = args.p_raw
    /\ \E k \in 1..2 : out[k] # sig[1] /\ out[k].q = QExact(args.q_fdr)

\* the place of a row in the collection
PlaceIn(coll, r) == CHOOSE k \in 1..Len(coll) : coll[k] = r

\* C13: the top-hit table has one row for each phenotype with a significant
\* row and none for another; the row is a significant row of the phenotype
\* with its smallest p-value, the first of those in the collection.
C13_TopHits ==
    (script = "trans" /\ "top" \in Range(written)) =>
        /\ {top[k].pheno_gene : k \in 1..Len(top)} = {sig[k].pheno_gene : k \in 1..Len(sig)}
        /\ \A k, j \in 1..Len(top) : top[k].pheno_gene = top[j].pheno_gene => k = j
        /\ \A k \in 1..Len(top) :
              /\ top[k] \in Range(sig)
              /\ \A j \in 1..Len(sig) :
                    sig[j].pheno_gene = top[k].pheno_gene =>
                        \/ Val(top[k].p) < Val(sig[j].p)
                        \/ /\ Val(top[k].p) = Val(sig[j].p)
                           /\ PlaceIn(out, top[k]) <= PlaceIn(out, sig[j])

\* C13's case: two significant rows of one phenotype with the same p-value
C13_Witness ==
    /\ script = "trans" /\ "top" \in Range(written)
    /\ Len(sig) = 2 /\ Len(top) = 1
    /\ sig[1].pheno_gene = sig[2].pheno_gene
    /\ sig[1].p = sig[2].p
    /\ top[1] = sig[1]

\* the key the significant table is to be ordered by
SigKey(r) ==
    <<Val(r.q), Dev(r.q), Val(r.p), StrRank(r.pheno_gene), StrRank(r.snp)>>

\* C14: the rows of the significant table are in ascending q order, ties
\* broken by ascending p, then phenotype name, then variant identifier, in
\* both aggregators.
C14_SigSorted ==
    (script \in Aggregators /\ "sig" \in Range(written)) =>
        \A k \in 1..(Len(sig) - 1) : KeyLeq(SigKey(sig[k]), SigKey(sig[k + 1]))

\* the three p-values of the scenario
ScenarioPs == {Num(1), Num(5), Dec(20)}

\* the collection holds one row from each of three files, with the p-values
\* 1e-7, 5e-7 and 0.2 and three distinct variants
InScenario ==
    /\ nread = 3 /\ Len(out) = 3
    /\ {out[k].p : k \in 1..3} = ScenarioPs
    /\ \A k, j \in 1..3 : (out[k].src = out[j].src \/ out[k].snp = out[j].snp) => k = j

\* C15: over three files of one usable row each, with p-values 1e-7, 5e-7 and
\* 0.2 for three distinct variants, raw-p threshold 5e-6 and q threshold 0.1,
\* the significant table holds the first two variants and not the third.
C15_Scenario ==
    (InScenario /\ "sig" \in Range(written)) =>
        /\ args.p_raw = PRawDefault /\ args.q_fdr = QFdrDefault
        /\ {sig[k].snp : k \in 1..Len(sig)} = {out[k].snp : k \in {j \in 1..3 : out[j].p # Dec(20)}}
        /\ Len(sig) = 2

\* C15's case: the scenario has been read in the order 0.2, 1e-7, 5e-7 and
\* its tables are written
C15_Witness ==
    /\ InScenario /\ pc = "done"
    /\ out[1].p = Dec(20) /\ out[2].p = Num(1) /\ out[3].p = Num(5)
    /\ Len(sig) = 2

----------------------------------------------------------------------------
(* Claims about the fine-mapper and about coercion, checked under SpecRun *)

\* C16: for a locus that is not empty the credible set is the shortest prefix
\* of the descending-PIP order whose cumulative PIP is >= c: its last row has
\* a cumulative PIP >= c and the row before that one a cumulative PIP < c;
\* when no prefix reaches c it is the whole table.
C16_CredibleMinimal ==
    (script = "finemap" /\ "cred" \in Range(written) /\ Len(out) > 0) =>
        LET c == args.credible
            n == Len(cred)
        IN  /\ cred = SubSeq(out, 1, n)
            /\ IF \E k \in 1..Len(out) : ~CumLess(out[k], c)
               THEN /\ n >= 1
                    /\ ~CumLess(cred[n], c)
                    /\ n > 1 => CumLess(cred[n - 1], c)
               ELSE cred = out

\* C17: the PIPs of a locus that is not empty, all of whose logABF are
\* finite, add up to 1.0 within 1e-9: their exact quotients add up to 1, and
\* the distances of the float64 from them, added up, and the distance of
\* their running sum from 1, stay within 1e-9 (1000000000 in units of 1e-18).
C17_PipSumsToOne ==
    (script = "finemap" /\ pc \in {"fm_write", "fm_cred", "done"}) =>
        /\ Len(out) >= 1
        /\ \A k \in 1..Len(out) : out[k].pip[2] = out[1].pip[2] /\ out[k].pip[2] > 0
        /\ SeqSum([k \in 1..Len(out) |-> out[k].pip[1]]) = out[1].pip[2]
        /\ Abs(SeqSum([k \in 1..Len(out) |-> out[k].pip[3]])) <= 1000000000
        /\ Abs(out[Len(out)].cum[3]) <= 1000000000

\* C18: on a locus that is empty (or has no finite logABF) the fine-mapper
\* reports undefined values and does not raise.
C18_UndefinedNotRaised ==
    script = "finemap" => exit # "raised: ValueError"

\* C19: no variant whose test statistic is 0 is in the PIP table or in the
\* credible set.
C19_NoZeroStat ==
    script = "finemap" =>
        \A coll \in {out, cred} :
            \A k \in 1..Len(coll) :
                /\ Val(coll[k].stat) # 0
                /\ cur.rows[coll[k].k].stat # "0"

\* C19's case: the table held a row of the additive test with an effect and
\* a statistic of 0 beside a row that is in the credible set
C19_Witness ==
    /\ script = "finemap" /\ "cred" \in Range(written)
    /\ \E k \in 1..Len(cur.rows) :
          cur.rows[k].test = "ADD" /\ cur.rows[k].stat = "0" /\ cur.rows[k].beta = "0.5"
    /\ Len(cred) >= 1

\* C20: in the aggregators a cell that is not a number never ends the run (a
\* run that raises has met a table without the P column), and the p-values
\* handed to the correction hold no missing value.
C20_CoercionNeverAborts ==
    script \in Aggregators =>
        /\ exit \in {"raised: KeyError 'P'", "raised: ZeroDivisionError"} =>
              (cur.kind = "table" /\ "P" \notin cur.cols)
        /\ bh_calls > 0 => \A k \in 1..Len(out) : notna(out[k].p)

----------------------------------------------------------------------------
(* Claims about the order of checks and writes, checked under SpecRun *)

\* the messages of the fatal checks of the three scripts
FatalChecks == FatalExits \cup {"fatal: missing column"}

\* C21: a run that ended on a fatal check (no input file, no usable row, a
\* required column absent from the fine-mapping input) has written none of
\* its tables; as a table once written stays written, no fatal check fires
\* behind the first write or between two writes.
C21_FatalBeforeWrites ==
    (pc = "exit" /\ exit \in FatalChecks) => written = <<>>

\* an aggregator went through its listing and ended on the fatal check that
\* follows the loop
C21_Witness ==
    /\ pc = "exit" /\ exit \in {"fatal: no valid rows", "fatal: no usable rows"}
    /\ nread >= 1 /\ written = <<>>

\* the file read last is a table with rows that lacks a column its rows need
\* to be usable: for the fine-mapper one of its nine columns, for an
\* aggregator the p-value column
LacksRequired ==
    /\ nread >= 1 /\ cur # <<>>
    /\ cur.kind = "table" /\ cur.rows # <<>>
    /\ IF script = "finemap" THEN ~(FmColumns \subseteq cur.cols) ELSE "P" \notin cur.cols

\* C22: when an input file lacks a column its rows need to be usable, the run
\* ends on a fatal check that reports the missing column, and neither goes
\* on past the file nor ends with an exception.
C22_MissingColumnFatal ==
    LacksRequired => (pc = "exit" /\ exit = "fatal: missing column")

----------------------------------------------------------------------------
(* Claims about the locus of finemap_pip.py, checked under SpecRun *)

\* C26: a variant whose effect size is 0 is left out even when its statistic
\* is not 0, its standard error |BETA/STAT| being 0: every row of the PIP
\* table and of the credible set has SE > 0, BETA # 0 and STAT # 0.
C26_PositiveSE ==
    script = "finemap" =>
        \A coll \in {out, cred} :
            \A k \in 1..Len(coll) :
                /\ notna(coll[k].se) /\ coll[k].se[1] > 0 /\ coll[k].se[2] > 0
                /\ Val(coll[k].beta) # 0 /\ cur.rows[coll[k].k].beta # "0"
                /\ Val(coll[k].stat) # 0

\* C26's case: the table held a row of the additive test with the effect 0
\* and the statistic 2 beside a row that is in the PIP table and in the
\* credible set
C26_Witness ==
    /\ script = "finemap" /\ "cred" \in Range(written)
    /\ \E k \in 1..Len(cur.rows) :
          cur.rows[k].test = "ADD" /\ cur.rows[k].beta = "0" /\ cur.rows[k].stat = "2"
    /\ Len(out) >= 1 /\ Len(cred) >= 1

----------------------------------------------------------------------------
(* Claims about the significant table, checked under SpecSigned *)

\* C25: the significant table is downward closed in p: for any two rows a and
\* b of the collection with P(b) <= P(a), if a is in the significant table
\* then b is in it too, whatever the two thresholds are.
C25_SigDownwardClosed ==
    (script = "trans" /\ "sig" \in Range(written)) =>
        \A a, b \in 1..Len(out) :
            (Val(out[b].p) <= Val(out[a].p) /\ out[a] \in Range(sig))
                => out[b] \in Range(sig)

============================================================================
